---- MODULE Spec2Model ----
(***************************************************************************)
(* ConverterX: the conversion-routing core.                                *)
(*                                                                         *)
(*   config.py               format and compatibility tables               *)
(*   utils.py                format detection, validation, output naming   *)
(*   converter_core.py       DocumentConverter: registry, dispatch and the *)
(*                           per-edge handlers with their fallback chains  *)
(*   video_audio_converter.py  the MoviePy / system-FFmpeg strategies      *)
(*   cli_converter.py        batch_convert, convert_file                   *)
(*   file_converter_gui.py   the GUI batch worker                          *)
(*                                                                         *)
(* The specifications share the variables:                                 *)
(*   Spec       construction of a DocumentConverter, then convert() calls  *)
(*              executed strategy by strategy;                             *)
(*   SpecBatch  one batch run (CLI batch_convert or the GUI worker) over a *)
(*              directory listing, one loop iteration per step;            *)
(*   SpecCli    the runs of batch_convert, each step taken when enabled;   *)
(*   SpecOut    batch_convert and convert_file with their output           *)
(*              directories;                                               *)
(*   SpecImage  one call of an image handler on an opened image;           *)
(*   SpecGui    the window of the GUI: its buttons, its worker threads and *)
(*              the callbacks they queue; SpecGuiFair adds the scheduling  *)
(*              of the threads and of the main loop.                       *)
(***************************************************************************)
EXTENDS Integers, Sequences, FiniteSets, TLC

(***************************************************************************)
(* Bounds of the model                                                     *)
(***************************************************************************)
\* output base names a caller may pass to convert(); the input's is 1
MaxStem ==
    2

\* a bulk directory holds MAX_BATCH_SIZE - 1 .. MAX_BATCH_SIZE + BulkOver
\* convertible files
BulkOver ==
    2

\* files of a small directory tree, and entries of the GUI file list
MaxListing ==
    3

\* the largest side of an image, in pages
MaxScale ==
    2

\* edits of the GUI file list made while one batch runs
MaxEdits ==
    1

\* worker threads the window starts in its life
MaxWorkers ==
    2

(***************************************************************************)
(* config.py                                                               *)
(***************************************************************************)
\* a table in which .jpg is listed under two formats
SUPPORTED_FORMATS_sharing_jpg ==
    << <<"jpg", <<".jpg", ".jpeg">>>>,
       <<"jpeg", <<".jpg">>>>,
       <<"pdf", <<".pdf">>>>,
       <<"rtf", <<".rtf">>>> >>

\* a dict is the sequence of its items <<key, value>>, in insertion order
SUPPORTED_FORMATS ==
    << <<"docx", <<".docx">>>>,
       <<"pdf", <<".pdf">>>>,
       <<"txt", <<".txt">>>>,
       <<"rtf", <<".rtf">>>>,
       <<"html", <<".html", ".htm">>>>,
       <<"odt", <<".odt">>>>,
       <<"xlsx", <<".xlsx">>>>,
       <<"csv", <<".csv">>>>,
       <<"md", <<".md">>>>,
       <<"png", <<".png">>>>,
       <<"jpg", <<".jpg", ".jpeg">>>>,
       <<"gif", <<".gif">>>>,
       <<"bmp", <<".bmp">>>>,
       <<"tiff", <<".tiff", ".tif">>>>,
       <<"webp", <<".webp">>>>,
       <<"ico", <<".ico">>>>,
       <<"svg", <<".svg">>>>,
       <<"mp4", <<".mp4">>>>,
       <<"avi", <<".avi">>>>,
       <<"mov", <<".mov">>>>,
       <<"wmv", <<".wmv">>>>,
       <<"flv", <<".flv">>>>,
       <<"mkv", <<".mkv">>>>,
       <<"webm", <<".webm">>>>,
       <<"m4v", <<".m4v">>>>,
       <<"3gp", <<".3gp">>>>,
       <<"mp3", <<".mp3">>>>,
       <<"wav", <<".wav">>>>,
       <<"aac", <<".aac">>>>,
       <<"flac", <<".flac">>>>,
       <<"ogg", <<".ogg">>>>,
       <<"m4a", <<".m4a">>>>,
       <<"wma", <<".wma">>>> >>

CONVERSION_MATRIX ==
    << <<"docx", <<"pdf", "txt", "html", "rtf">>>>,
       <<"pdf", <<"txt", "docx", "html">>>>,
       <<"txt", <<"docx", "pdf", "html", "rtf">>>>,
       <<"html", <<"docx", "pdf", "txt">>>>,
       <<"rtf", <<"docx", "pdf", "txt">>>>,
       <<"md", <<"html", "pdf", "docx">>>>,
       <<"xlsx", <<"csv", "pdf">>>>,
       <<"csv", <<"xlsx", "pdf">>>>,
       <<"png", <<"jpg", "pdf", "gif", "bmp", "tiff", "webp", "ico">>>>,
       <<"jpg", <<"png", "pdf", "gif", "bmp", "tiff", "webp">>>>,
       <<"gif", <<"png", "jpg", "pdf", "bmp", "tiff", "webp">>>>,
       <<"bmp", <<"png", "jpg", "pdf", "gif", "tiff", "webp">>>>,
       <<"tiff", <<"png", "jpg", "pdf", "gif", "bmp", "webp">>>>,
       <<"webp", <<"png", "jpg", "pdf", "gif", "bmp", "tiff">>>>,
       <<"ico", <<"png", "jpg", "pdf", "gif", "bmp">>>>,
       <<"svg", <<"png", "jpg", "pdf">>>>,
       <<"mp4", <<"avi", "mov", "wmv", "flv", "mkv", "webm", "m4v", "3gp", "mp3", "wav", "aac", "gif">>>>,
       <<"avi", <<"mp4", "mov", "wmv", "flv", "mkv", "webm", "m4v", "3gp", "mp3", "wav", "aac", "gif">>>>,
       <<"mov", <<"mp4", "avi", "wmv", "flv", "mkv", "webm", "m4v", "3gp", "mp3", "wav", "aac", "gif">>>>,
       <<"wmv", <<"mp4", "avi", "mov", "flv", "mkv", "webm", "m4v", "3gp", "mp3", "wav", "aac", "gif">>>>,
       <<"flv", <<"mp4", "avi", "mov", "wmv", "mkv", "webm", "m4v", "3gp", "mp3", "wav", "aac", "gif">>>>,
       <<"mkv", <<"mp4", "avi", "mov", "wmv", "flv", "webm", "m4v", "3gp", "mp3", "wav", "aac", "gif">>>>,
       <<"webm", <<"mp4", "avi", "mov", "wmv", "flv", "mkv", "m4v", "3gp", "mp3", "wav", "aac", "gif">>>>,
       <<"m4v", <<"mp4", "avi", "mov", "wmv", "flv", "mkv", "webm", "3gp", "mp3", "wav", "aac", "gif">>>>,
       <<"3gp", <<"mp4", "avi", "mov", "wmv", "flv", "mkv", "webm", "m4v", "mp3", "wav", "aac", "gif">>>>,
       <<"mp3", <<"wav", "aac", "flac", "ogg", "m4a", "wma">>>>,
       <<"wav", <<"mp3", "aac", "flac", "ogg", "m4a", "wma">>>>,
       <<"aac", <<"mp3", "wav", "flac", "ogg", "m4a", "wma">>>>,
       <<"flac", <<"mp3", "wav", "aac", "ogg", "m4a", "wma">>>>,
       <<"ogg", <<"mp3", "wav", "aac", "flac", "m4a", "wma">>>>,
       <<"m4a", <<"mp3", "wav", "aac", "flac", "ogg", "wma">>>>,
       <<"wma", <<"mp3", "wav", "aac", "flac", "ogg", "m4a">>>> >>

ExplicitTable ==
    << << <<"docx", "pdf">>, "_docx_to_pdf" >>,
       << <<"docx", "txt">>, "_docx_to_txt" >>,
       << <<"docx", "html">>, "_docx_to_html" >>,
       << <<"pdf", "txt">>, "_pdf_to_txt" >>,
       << <<"pdf", "docx">>, "_pdf_to_docx" >>,
       << <<"txt", "pdf">>, "_txt_to_pdf" >>,
       << <<"txt", "docx">>, "_txt_to_docx" >>,
       << <<"html", "pdf">>, "_html_to_pdf" >>,
       << <<"html", "txt">>, "_html_to_txt" >>,
       << <<"md", "html">>, "_md_to_html" >>,
       << <<"xlsx", "csv">>, "_xlsx_to_csv" >>,
       << <<"csv", "xlsx">>, "_csv_to_xlsx" >>,
       << <<"png", "jpg">>, "_image_convert" >>,
       << <<"png", "gif">>, "_image_convert" >>,
       << <<"png", "bmp">>, "_image_convert" >>,
       << <<"png", "tiff">>, "_image_convert" >>,
       << <<"png", "webp">>, "_image_convert" >>,
       << <<"png", "ico">>, "_image_convert" >>,
       << <<"png", "pdf">>, "_image_to_pdf" >>,
       << <<"jpg", "png">>, "_image_convert" >>,
       << <<"jpg", "gif">>, "_image_convert" >>,
       << <<"jpg", "bmp">>, "_image_convert" >>,
       << <<"jpg", "tiff">>, "_image_convert" >>,
       << <<"jpg", "webp">>, "_image_convert" >>,
       << <<"jpg", "pdf">>, "_image_to_pdf" >>,
       << <<"gif", "png">>, "_image_convert" >>,
       << <<"gif", "jpg">>, "_image_convert" >>,
       << <<"gif", "bmp">>, "_image_convert" >>,
       << <<"gif", "tiff">>, "_image_convert" >>,
       << <<"gif", "webp">>, "_image_convert" >>,
       << <<"gif", "pdf">>, "_image_to_pdf" >>,
       << <<"bmp", "png">>, "_image_convert" >>,
       << <<"bmp", "jpg">>, "_image_convert" >>,
       << <<"bmp", "gif">>, "_image_convert" >>,
       << <<"bmp", "tiff">>, "_image_convert" >>,
       << <<"bmp", "webp">>, "_image_convert" >>,
       << <<"bmp", "pdf">>, "_image_to_pdf" >>,
       << <<"tiff", "png">>, "_image_convert" >>,
       << <<"tiff", "jpg">>, "_image_convert" >>,
       << <<"tiff", "gif">>, "_image_convert" >>,
       << <<"tiff", "bmp">>, "_image_convert" >>,
       << <<"tiff", "webp">>, "_image_convert" >>,
       << <<"tiff", "pdf">>, "_image_to_pdf" >>,
       << <<"webp", "png">>, "_image_convert" >>,
       << <<"webp", "jpg">>, "_image_convert" >>,
       << <<"webp", "gif">>, "_image_convert" >>,
       << <<"webp", "bmp">>, "_image_convert" >>,
       << <<"webp", "tiff">>, "_image_convert" >>,
       << <<"webp", "pdf">>, "_image_to_pdf" >>,
       << <<"ico", "png">>, "_image_convert" >>,
       << <<"ico", "jpg">>, "_image_convert" >>,
       << <<"ico", "gif">>, "_image_convert" >>,
       << <<"ico", "bmp">>, "_image_convert" >>,
       << <<"ico", "pdf">>, "_image_to_pdf" >>,
       << <<"svg", "png">>, "_svg_to_raster" >>,
       << <<"svg", "jpg">>, "_svg_to_raster" >>,
       << <<"svg", "pdf">>, "_svg_to_pdf" >> >>

MAX_FILE_SIZE ==
    100

MAX_BATCH_SIZE ==
    50

(***************************************************************************)
(* Generic helpers                                                         *)
(***************************************************************************)
Range(s) ==
    { s[i] : i \in DOMAIN s }

Min(S) ==
    CHOOSE x \in S : \A y \in S : x <= y

None ==
    "None"

\* dict operations on the sequence of items
Keys(d) ==
    { d[i][1] : i \in DOMAIN d }

Get(d, k) ==
    d[CHOOSE i \in DOMAIN d : d[i][1] = k][2]

(***************************************************************************)
(* utils.py                                                                *)
(*                                                                         *)
(* A path is <<dir, stem, suffix>>; a suffix is <<text, upper>>: its       *)
(* spelling in lower case and the positions written in upper case.         *)
(***************************************************************************)
Path(dir, stem, suffix) ==
    << dir, stem, suffix >>

Suffix(text) ==
    << text, {} >>

\* str.lower() on a suffix
lower(suffix) ==
    << suffix[1], {} >>

get_file_extension(file_path) ==
    lower(file_path[3])

\* lines 26-32, with the extension compared as it is spelled
get_file_format_as_spelled(file_path) ==
    LET ext  == file_path[3]
        hits == { i \in DOMAIN SUPPORTED_FORMATS :
                    \E e \in Range(SUPPORTED_FORMATS[i][2]) : Suffix(e) = ext }
    IN  IF hits = {} THEN None ELSE SUPPORTED_FORMATS[Min(hits)][1]

get_file_format(file_path) ==
    LET ext  == get_file_extension(file_path)
        hits == { i \in DOMAIN SUPPORTED_FORMATS :
                    \E e \in Range(SUPPORTED_FORMATS[i][2]) : Suffix(e) = ext }
    IN  IF hits = {} THEN None ELSE SUPPORTED_FORMATS[Min(hits)][1]

is_supported_format(file_path) ==
    get_file_format(file_path) # None

can_convert(source_format, target_format) ==
    /\ source_format \in Keys(CONVERSION_MATRIX)
    /\ target_format \in Range(Get(CONVERSION_MATRIX, source_format))

\* config.py, line 89: the directory converted_files of the working directory
DEFAULT_OUTPUT_DIR ==
    1

\* lines 68-80, with the suffix of the input kept
generate_output_filename_keeping_suffix(input_file, target_format, output_dir) ==
    Path(output_dir, input_file[2], input_file[3])

\* lines 68-80
generate_output_filename(input_file, target_format, output_dir) ==
    Path(output_dir, input_file[2], Suffix(Get(SUPPORTED_FORMATS, target_format)[1]))

(***************************************************************************)
(* converter_core.py: the registry                                         *)
(***************************************************************************)
video_formats ==
    << "mp4", "avi", "mov", "wmv", "flv", "mkv", "webm", "m4v", "3gp" >>

audio_formats ==
    << "mp3", "wav", "aac", "flac", "ogg", "m4a", "wma" >>

\* the keys visited by "for source in A: for target in B", in loop order
Loop(A, B) ==
    [ n \in 1..(Len(A) * Len(B)) |->
        << A[((n - 1) \div Len(B)) + 1], B[((n - 1) % Len(B)) + 1] >> ]

\* lines 661 and 676, with the test left out
EveryPair(key) ==
    TRUE

\* lines 661 and 676: source != target
Distinct(key) ==
    key[1] # key[2]

\* d[k] = v for every k of keys (each key once), in order: a key already in
\* d keeps its place, a new key is appended
SetItems(d, keys, v) ==
    LET fresh == SelectSeq(keys, LAMBDA k : k \notin Keys(d))
    IN  [ i \in DOMAIN d |-> IF d[i][1] \in Range(keys) THEN << d[i][1], v >> ELSE d[i] ]
          \o [ i \in DOMAIN fresh |-> << fresh[i], v >> ]

\* lines 652-677, without the loop of lines 669-671
add_video_audio_conversions_without_gif(table) ==
    LET t1 == SetItems(table, SelectSeq(Loop(video_formats, video_formats), Distinct),
                       "_video_to_video")
        t2 == SetItems(t1, Loop(video_formats, audio_formats), "_video_to_audio")
    IN  SetItems(t2, SelectSeq(Loop(audio_formats, audio_formats), Distinct),
                 "_audio_to_audio")

\* lines 652-677
add_video_audio_conversions(table) ==
    LET t1 == SetItems(table, SelectSeq(Loop(video_formats, video_formats), Distinct),
                       "_video_to_video")
        t2 == SetItems(t1, Loop(video_formats, audio_formats), "_video_to_audio")
        t3 == SetItems(t2, Loop(video_formats, << "gif" >>), "_video_to_gif")
    IN  SetItems(t3, SelectSeq(Loop(audio_formats, audio_formats), Distinct),
                 "_audio_to_audio")

\* DocumentConverter.__init__
DocumentConverter ==
    add_video_audio_conversions(ExplicitTable)

Formats ==
    Keys(SUPPORTED_FORMATS)

\* the handler convert() looks up; None when the key is absent
DefaultHandlerFor(table, key) ==
    IF key \in Keys(table) THEN Get(table, key) ELSE "_image_convert"

HandlerFor(table, key) ==
    IF key \in Keys(table) THEN Get(table, key) ELSE None

(***************************************************************************)
(* State                                                                   *)
(***************************************************************************)
VARIABLES
    MOVIEPY_AVAILABLE,       \* video_audio_converter.py, set at import
    FFMPEG_SYSTEM_AVAILABLE, \* video_audio_converter.py, set at import
    supported_conversions,   \* DocumentConverter.supported_conversions
    pc,                      \* position of the convert() call
    chain,                   \* the handler convert() dispatched to
    input_file, output_file, source_format, target_format,
    out_before,              \* what was at output_file when the call began
    out_file,                \* what is at output_file now
    temp_png,                \* the NamedTemporaryFile of the SVG handlers
    codecs,                  \* << video codec, audio codec >> the strategy selected
    attempts,                \* strategies run by this call, in order
    handler_calls,           \* handler functions convert() has invoked
    procs,                   \* external processes started by this call
    fb_ret,                  \* result of _svg_to_raster_fallback for _svg_to_pdf
    ret                      \* what convert() returned

envVars ==
    << MOVIEPY_AVAILABLE, FFMPEG_SYSTEM_AVAILABLE >>

callVars ==
    << pc, chain, input_file, output_file, source_format, target_format,
       out_before, out_file, temp_png, codecs, attempts, handler_calls, procs, fb_ret, ret >>

convVars ==
    << envVars, supported_conversions, callVars >>

\* a batch run: cli_converter.batch_convert, or the batch worker of the GUI
VARIABLES
    front,             \* the front end that runs: "cli" or "gui"
    b_pc,              \* position of the batch
    input_dir_exists,  \* cli: os.path.exists(input_dir)
    walk,              \* cli: the files os.walk(input_dir) yields, in order
    batch_target,      \* the target_format of the batch
    supported_files,   \* cli: batch_convert.supported_files
    response,          \* cli: the line input() read
    warned,            \* cli: the "Too many files" warning was logged
    input_files_list,  \* gui: self.input_files_list
    convert_button,    \* gui: self.convert_button['state']
    file_count,        \* gui: start_batch_conversion.file_count
    started_with,      \* gui: the entries of input_files_list when the batch started
    edits,             \* gui: edits of input_files_list since the batch started
    position,          \* items the for loop has taken from its list
    successful,
    failed,
    processed,         \* files the loop body ran for, in order
    attempted,         \* files handed to converter.convert, in order
    reported,          \* the summary of the batch was emitted
    b_ret,             \* what batch_convert, or convert_file, returned
    arg_input,         \* cli, single file: args.input
    arg_output,        \* cli, single file: args.output, NoPath without -o
    output_dir,        \* the directory the run writes to
    dirs,              \* the output directories that exist
    output_files,      \* the output paths handed to converter.convert, in order
    image_pc,          \* an image handler: None, "open" after Image.open, "returned"
    image_handler,     \* the handler convert() dispatched to
    image_ext,         \* _image_convert.target_ext
    src_img,           \* the image as Image.open read it
    img,               \* the handler's img
    image_ops,         \* the operations applied to img, in order
    encoder,           \* what img.save was given: << format, sizes= >>
    image_ret,         \* what the handler returned
    workers,           \* gui: the threads start_batch_conversion started, in order
    callbacks,         \* gui: the completions queued by root.after(0, ...), in order
    progress_bar       \* gui: self.progress_bar, "stopped" or "running"

cliVars ==
    << input_dir_exists, walk, supported_files, response, warned, b_ret >>

guiVars ==
    << input_files_list, convert_button, file_count, started_with, edits >>

loopVars ==
    << position, successful, failed, processed, attempted, reported >>

argVars ==
    << arg_input, arg_output >>

outVars ==
    << output_dir, dirs, output_files >>

imageVars ==
    << image_pc, image_handler, image_ext, src_img, img, image_ops, encoder, image_ret >>

threadVars ==
    << workers, callbacks, progress_bar >>

batchVars ==
    << front, b_pc, batch_target, cliVars, guiVars, loopVars, argVars, outVars, imageVars,
       threadVars >>

\* the locals of a convert() call, which a batch leaves alone
frameVars ==
    << chain, input_file, output_file, source_format, target_format, out_before,
       out_file, temp_png, codecs, attempts, handler_calls, procs, fb_ret, ret >>

NoPath ==
    Path(0, 0, Suffix(""))

\* a file system entry: absent, old (there before the call), partial or
\* complete (written by the strategy named in by)
Entry(state, by) ==
    << state, by >>

SimpleHandlers ==
    { "_docx_to_txt", "_docx_to_html", "_pdf_to_txt", "_pdf_to_docx", "_txt_to_pdf",
      "_txt_to_docx", "_html_to_pdf", "_html_to_txt", "_md_to_html", "_xlsx_to_csv",
      "_csv_to_xlsx", "_image_convert", "_image_to_pdf" }

VideoHandlers ==
    { "_video_to_video", "_video_to_audio", "_video_to_gif", "_audio_to_audio" }

Attempt(strategy, result) ==
    << strategy, result >>

\* no strategy has chosen a codec
NoCodecs ==
    << None, None >>

\* no call in progress
Idle ==
    /\ chain = None
    /\ input_file = NoPath
    /\ output_file = NoPath
    /\ source_format = None
    /\ target_format = None
    /\ out_before = Entry("absent", None)
    /\ out_file = Entry("absent", None)
    /\ temp_png = "none"
    /\ codecs = NoCodecs
    /\ attempts = << >>
    /\ handler_calls = 0
    /\ procs = 0
    /\ fb_ret = None
    /\ ret = None

InitEnv ==
    /\ MOVIEPY_AVAILABLE \in BOOLEAN
    /\ FFMPEG_SYSTEM_AVAILABLE \in BOOLEAN

(***************************************************************************)
(* converter_core.py: DocumentConverter.__init__ and convert               *)
(***************************************************************************)
new_DocumentConverter ==
    /\ pc = "new"
    /\ supported_conversions' = DocumentConverter
    /\ pc' = "idle"
    /\ UNCHANGED << envVars, chain, input_file, output_file, source_format, target_format,
                    out_before, out_file, temp_png, codecs, attempts, handler_calls, procs,
                    fb_ret, ret >>
    /\ UNCHANGED batchVars

\* the output paths a caller passes: the generated name, or one of its own
OutputFiles(inp, target) ==
    { generate_output_filename(inp, target, DEFAULT_OUTPUT_DIR) }
      \cup { Path(1, k, Suffix(e)) :
               k \in 2..MaxStem, e \in { Get(SUPPORTED_FORMATS, target)[1], ".bmp" } }

\* lines 95-102: the registry check, then the dispatch
convert(inp, out, source, target, before) ==
    /\ pc = "idle"
    /\ input_file' = inp
    /\ output_file' = out
    /\ source_format' = source
    /\ target_format' = target
    /\ out_before' = before
    /\ out_file' = before
    /\ LET converter_func == HandlerFor(supported_conversions, <<source, target>>)
       IN  IF converter_func = None
           THEN /\ ret' = "False"
                /\ pc' = "returned"
                /\ UNCHANGED << chain, handler_calls >>
           ELSE /\ chain' = converter_func
                /\ handler_calls' = handler_calls + 1
                /\ pc' = converter_func
                /\ ret' = ret
    /\ UNCHANGED << envVars, supported_conversions, temp_png, codecs, attempts, procs, fb_ret >>
    /\ UNCHANGED batchVars

convert_call ==
    \E source \in Formats, target \in Formats :
      \E before \in { Entry("absent", None), Entry("old", None) } :
        LET inp == Path(0, 1, Suffix(Get(SUPPORTED_FORMATS, source)[1]))
        IN  \E out \in OutputFiles(inp, target) :
              convert(inp, out, source, target, before)

\* the caller takes the result; the converter is ready for the next call
convert_return ==
    /\ pc = "returned"
    /\ pc' = "idle"
    /\ chain' = None
    /\ input_file' = NoPath
    /\ output_file' = NoPath
    /\ source_format' = None
    /\ target_format' = None
    /\ out_before' = Entry("absent", None)
    /\ out_file' = Entry("absent", None)
    /\ temp_png' = "none"
    /\ codecs' = NoCodecs
    /\ attempts' = << >>
    /\ handler_calls' = 0
    /\ procs' = 0
    /\ fb_ret' = None
    /\ ret' = None
    /\ UNCHANGED << envVars, supported_conversions >>
    /\ UNCHANGED batchVars

\* what a handler hands back through convert(): lines 102, 104-106
returns(result) ==
    /\ ret' = (IF result = "Raise" THEN "False" ELSE result)
    /\ pc' = "returned"

(***************************************************************************)
(* Handlers with one strategy: lines 208-538                               *)
(* read the input, write output_file, return True; any exception is        *)
(* logged and answered with False.                                         *)
(***************************************************************************)
simple_handler ==
    /\ pc \in SimpleHandlers
    /\ \E o \in { "ok", "raise_before_write", "raise_in_write" } :
         /\ attempts' = Append(attempts, Attempt(pc, IF o = "ok" THEN "ok" ELSE "raised"))
         /\ out_file' = CASE o = "ok"                 -> Entry("complete", pc)
                          [] o = "raise_in_write"     -> Entry("partial", pc)
                          [] o = "raise_before_write" -> out_file
         /\ returns(IF o = "ok" THEN "True" ELSE "False")
    /\ UNCHANGED << envVars, supported_conversions, chain, input_file, output_file,
                    source_format, target_format, out_before, temp_png, codecs, handler_calls,
                    procs, fb_ret >>
    /\ UNCHANGED batchVars


(***************************************************************************)
(* _docx_to_pdf, lines 108-176, and _docx_to_pdf_fallback, lines 178-206   *)
(***************************************************************************)
\* line 153: LibreOffice names its output after the input file
libreoffice_output ==
    Path(output_file[1], input_file[2], Suffix(".pdf"))

docxUnchanged ==
    UNCHANGED << envVars, supported_conversions, chain, input_file, output_file,
                 source_format, target_format, out_before, temp_png, codecs, handler_calls,
                 fb_ret, batchVars >>

\* lines 114-132: Word through COM
docx_to_pdf_windows ==
    /\ pc = "_docx_to_pdf"
    /\ \E o \in { "ok", "raise" } :
         /\ attempts' = Append(attempts, Attempt("word_com", IF o = "ok" THEN "ok" ELSE "raised"))
         /\ IF o = "ok"
            THEN /\ out_file' = Entry("complete", "word_com")
                 /\ procs' = procs + 1
                 /\ returns("True")
            ELSE /\ pc' = "_docx_to_pdf_fallback"
                 /\ UNCHANGED << out_file, procs, ret >>
    /\ docxUnchanged

\* lines 134-167, and the outer handler of lines 173-176
docx_to_pdf_linux ==
    /\ pc = "_docx_to_pdf"
    /\ \E o \in { "not_found", "oserror", "timeout", "rc_nonzero", "rc0_written", "rc0_nofile" } :
         LET renamed == libreoffice_output # output_file
             success == \/ o = "rc0_written"
                        \/ o = "rc0_nofile" /\ ~renamed
         IN  /\ procs' = IF o \in { "not_found", "oserror" } THEN procs ELSE procs + 1
             /\ attempts' = Append(attempts,
                              Attempt("libreoffice",
                                      CASE success          -> "ok"
                                        [] o = "not_found"  -> "missing"
                                        [] o = "rc_nonzero" -> "failed"
                                        [] o = "timeout"    -> "timeout"
                                        [] OTHER            -> "raised"))
             /\ out_file' = IF o = "rc0_written"
                            THEN Entry("complete", "libreoffice") ELSE out_file
             /\ IF success
                THEN returns("True")
                ELSE /\ pc' = "_docx_to_pdf_fallback"
                     /\ ret' = ret
    /\ docxUnchanged

\* lines 169-171: any other platform
docx_to_pdf_other ==
    /\ pc = "_docx_to_pdf"
    /\ pc' = "_docx_to_pdf_fallback"
    /\ UNCHANGED << out_file, attempts, procs, ret >>
    /\ docxUnchanged

docx_to_pdf_fallback ==
    /\ pc = "_docx_to_pdf_fallback"
    /\ \E o \in { "ok", "raise_before_write", "raise_in_write" } :
         /\ attempts' = Append(attempts,
                          Attempt("text_extraction", IF o = "ok" THEN "ok" ELSE "raised"))
         /\ out_file' = CASE o = "ok"                 -> Entry("complete", "text_extraction")
                          [] o = "raise_in_write"     -> Entry("partial", "text_extraction")
                          [] o = "raise_before_write" -> out_file
         /\ returns(IF o = "ok" THEN "True" ELSE "False")
    /\ UNCHANGED procs
    /\ docxUnchanged

(***************************************************************************)
(* video_audio_converter.py: the four entry points, lines 48-64, 156-172,  *)
(* 248-264, 345-361, behind _video_to_video .. _audio_to_audio (679-712)   *)
(***************************************************************************)
\* os.path.splitext(output_file)[1][1:].lower() (converter_core.py, lines
\* 682, 691, 708), for the extensions an output file of these handlers has
without_dot ==
    << <<".mp4", "mp4">>, <<".avi", "avi">>, <<".mov", "mov">>, <<".wmv", "wmv">>,
       <<".flv", "flv">>, <<".mkv", "mkv">>, <<".webm", "webm">>, <<".m4v", "m4v">>,
       <<".3gp", "3gp">>, <<".mp3", "mp3">>, <<".wav", "wav">>, <<".aac", "aac">>,
       <<".flac", "flac">>, <<".ogg", "ogg">>, <<".m4a", "m4a">>, <<".wma", "wma">>,
       <<".gif", "gif">>, <<".bmp", "bmp">> >>

output_format ==
    Get(without_dot, lower(output_file[3])[1])

\* lines 432-443
get_audio_params(audio_format) ==
    CASE audio_format = "mp3"  -> "mp3"
      [] audio_format = "wav"  -> "pcm_s16le"
      [] audio_format = "aac"  -> "aac"
      [] audio_format = "flac" -> "flac"
      [] audio_format = "ogg"  -> "libvorbis"
      [] audio_format = "m4a"  -> "aac"
      [] audio_format = "wma"  -> "wmav2"
      [] OTHER                 -> "mp3"

\* lines 445-458: << codec, audio_codec >>
get_video_params(video_format) ==
    CASE video_format = "mp4"  -> << "libx264", "aac" >>
      [] video_format = "avi"  -> << "libxvid", "mp3" >>
      [] video_format = "mov"  -> << "libx264", "aac" >>
      [] video_format = "wmv"  -> << "wmv2", "wmav2" >>
      [] video_format = "flv"  -> << "flv", "mp3" >>
      [] video_format = "mkv"  -> << "libx264", "aac" >>
      [] video_format = "webm" -> << "libvpx", "libvorbis" >>
      [] video_format = "m4v"  -> << "libx264", "aac" >>
      [] video_format = "3gp"  -> << "h263", "aac" >>
      [] OTHER                 -> << "libx264", "aac" >>

\* lines 126-138: -acodec of _convert_video_to_audio_ffmpeg
convert_video_to_audio_ffmpeg_acodec(audio_format) ==
    CASE audio_format = "mp3"  -> "mp3"
      [] audio_format = "wav"  -> "pcm_s16le"
      [] audio_format = "aac"  -> "aac"
      [] audio_format = "flac" -> "flac"
      [] audio_format = "ogg"  -> "libvorbis"
      [] OTHER                 -> "mp3"

\* lines 209-230: -c:v and -c:a of _convert_video_format_ffmpeg
convert_video_format_ffmpeg_codecs(video_format) ==
    CASE video_format = "mp4"  -> << "libx264", "aac" >>
      [] video_format = "avi"  -> << "libx264", "mp3" >>
      [] video_format = "mov"  -> << "libx264", "aac" >>
      [] video_format = "wmv"  -> << "wmv2", "wmav2" >>
      [] video_format = "flv"  -> << "flv1", "mp3" >>
      [] video_format = "mkv"  -> << "libx264", "aac" >>
      [] video_format = "webm" -> << "libvpx", "libvorbis" >>
      [] video_format = "m4v"  -> << "libx264", "aac" >>
      [] video_format = "3gp"  -> << "h263", "aac" >>
      [] OTHER                 -> << "libx264", "aac" >>

\* lines 398-414: -acodec of _convert_audio_format_ffmpeg
convert_audio_format_ffmpeg_acodec(audio_format) ==
    CASE audio_format = "mp3"  -> "mp3"
      [] audio_format = "wav"  -> "pcm_s16le"
      [] audio_format = "aac"  -> "aac"
      [] audio_format = "flac" -> "flac"
      [] audio_format = "ogg"  -> "libvorbis"
      [] audio_format = "m4a"  -> "aac"
      [] audio_format = "wma"  -> "wmav2"
      [] OTHER                 -> "mp3"

\* the codecs the MoviePy strategy of a handler writes with (lines 88, 182,
\* 371); write_gif takes none
moviepy_codecs(handler, format) ==
    CASE handler = "_video_to_video" -> get_video_params(format)
      [] handler = "_video_to_gif"   -> NoCodecs
      [] OTHER                       -> << None, get_audio_params(format) >>

\* the codecs on the command line of the FFmpeg strategy of a handler
ffmpeg_codecs(handler, format) ==
    CASE handler = "_video_to_video" -> convert_video_format_ffmpeg_codecs(format)
      [] handler = "_video_to_audio" ->
             << None, convert_video_to_audio_ffmpeg_acodec(format) >>
      [] handler = "_audio_to_audio" ->
             << None, convert_audio_format_ffmpeg_acodec(format) >>
      [] OTHER                       -> NoCodecs

videoUnchanged ==
    UNCHANGED << envVars, supported_conversions, chain, input_file, output_file,
                 source_format, target_format, out_before, temp_png, handler_calls,
                 fb_ret, batchVars >>

video_moviepy ==
    /\ pc \in VideoHandlers
    /\ MOVIEPY_AVAILABLE
    /\ \E o \in { "ok", "raise_before_write", "raise_in_write" } :
         /\ attempts' = Append(attempts, Attempt("moviepy", IF o = "ok" THEN "ok" ELSE "raised"))
         /\ out_file' = CASE o = "ok"                 -> Entry("complete", "moviepy")
                          [] o = "raise_in_write"     -> Entry("partial", "moviepy")
                          [] o = "raise_before_write" -> out_file
         \* the parameters are looked up once the input is loaded
         /\ codecs' = IF o = "raise_before_write"
                       THEN codecs
                       ELSE moviepy_codecs(pc, output_format)
         /\ returns(IF o = "ok" THEN "True" ELSE "False")
    /\ UNCHANGED procs
    /\ videoUnchanged

\* the _ffmpeg strategies, with TimeoutExpired passed over
ffmpeg_result_ignoring_timeout(o) ==
    IF o \in { "rc0", "timeout" } THEN "True" ELSE "False"

\* what an entry point returns for its _ffmpeg strategy: True after return
\* code 0; a missing input, another return code and TimeoutExpired raise
\* (lines 236-246), which the entry point answers with False (170-172)
ffmpeg_result(o) ==
    IF o = "rc0" THEN "True" ELSE "False"

video_ffmpeg ==
    /\ pc \in VideoHandlers
    /\ ~MOVIEPY_AVAILABLE
    /\ FFMPEG_SYSTEM_AVAILABLE
    /\ \E o \in { "input_missing", "rc0", "rc_nonzero", "timeout" } :
         /\ attempts' = Append(attempts, Attempt("ffmpeg",
                                      CASE o = "rc0"        -> "ok"
                                        [] o = "rc_nonzero" -> "failed"
                                        [] o = "timeout"    -> "timeout"
                                        [] OTHER            -> "raised"))
         /\ procs' = IF o = "input_missing" THEN procs ELSE procs + 1
         /\ out_file' = CASE o = "rc0"     -> Entry("complete", "ffmpeg")
                          [] o = "timeout" -> Entry("partial", "ffmpeg")
                          [] OTHER         -> out_file
         \* the command line is built once the input is found
         /\ codecs' = IF o = "input_missing"
                       THEN codecs
                       ELSE ffmpeg_codecs(pc, output_format)
         /\ returns(ffmpeg_result(o))
    /\ videoUnchanged

video_no_tools ==
    /\ pc \in VideoHandlers
    /\ ~MOVIEPY_AVAILABLE
    /\ ~FFMPEG_SYSTEM_AVAILABLE
    /\ returns("False")
    /\ UNCHANGED << out_file, attempts, procs, codecs >>
    /\ videoUnchanged


(***************************************************************************)
(* _svg_to_raster (540-589), _svg_to_raster_fallback (591-622),            *)
(* _svg_to_pdf (624-650)                                                   *)
(***************************************************************************)
svgUnchanged ==
    UNCHANGED << envVars, supported_conversions, chain, input_file, output_file,
                 source_format, target_format, out_before, handler_calls, procs, codecs,
                 batchVars >>

\* line 547: os.path.splitext(output_file)[1].lower()
target_ext ==
    lower(output_file[3])[1]

\* the outcomes of the cairosvg branch that the target extension allows;
\* os.unlink (lines 567, 576) runs inside the with block, on the open
\* temporary file, which raises where an open file cannot be deleted
CairoOutcomes ==
    CASE target_ext = ".png"               -> { "import_error", "raise_render", "ok" }
      [] target_ext \in { ".jpg", ".jpeg" } -> { "import_error", "raise_render",
                                                 "raise_encode", "raise_unlink", "ok" }
      [] OTHER                             -> { "import_error", "raise_render",
                                                 "convert_false", "raise_unlink", "ok" }

svg_to_raster ==
    /\ pc = "_svg_to_raster"
    /\ \E o \in CairoOutcomes :
         /\ attempts' = Append(attempts,
                          Attempt("cairosvg", CASE o = "ok"            -> "ok"
                                                [] o = "import_error"  -> "missing"
                                                [] o = "convert_false" -> "failed"
                                                [] o = "raise_unlink"  -> "unlink_raised"
                                                [] OTHER               -> "raised"))
         /\ out_file' = CASE o \in { "ok", "raise_unlink" } -> Entry("complete", "cairosvg")
                          [] o \in { "raise_encode", "convert_false" }
                                      -> Entry("partial", "cairosvg")
                          [] OTHER    -> out_file
         \* the intermediate PNG exists only on the branches of lines 551-577,
         \* and os.unlink is reached only when nothing raised before it
         /\ temp_png' = CASE o = "import_error" \/ target_ext = ".png" -> temp_png
                          [] o \in { "ok", "convert_false" }           -> "deleted"
                          [] OTHER                                     -> "exists"
         /\ CASE o = "ok"            -> returns("True")
              [] o = "convert_false" -> returns("False")
              [] OTHER               -> /\ pc' = "_svg_to_raster_fallback"
                                        /\ ret' = ret
    /\ UNCHANGED fb_ret
    /\ svgUnchanged

\* _svg_to_raster_fallback returns to its caller: _svg_to_raster returns the
\* value (585, 589); _svg_to_pdf goes on at line 640
fallback_returns(result) ==
    IF chain = "_svg_to_pdf"
    THEN /\ fb_ret' = result
         /\ pc' = "_svg_to_pdf_png"
         /\ ret' = ret
    ELSE /\ fb_ret' = fb_ret
         /\ returns(result)

\* the file the fallback writes: output_file, or the temporary PNG of
\* _svg_to_pdf (line 640)
fallback_writes(entry) ==
    IF chain = "_svg_to_pdf"
    THEN UNCHANGED out_file
    ELSE out_file' = entry

\* lines 595-603 and 620-622: Wand
svg_to_raster_fallback ==
    /\ pc = "_svg_to_raster_fallback"
    /\ \E o \in { "import_error", "raise_render", "ok" } :
         /\ attempts' = Append(attempts,
                          Attempt("wand", CASE o = "ok"           -> "ok"
                                            [] o = "import_error" -> "missing"
                                            [] OTHER              -> "raised"))
         /\ CASE o = "ok"           -> /\ fallback_writes(Entry("complete", "wand"))
                                       /\ fallback_returns("True")
              [] o = "raise_render" -> /\ UNCHANGED out_file
                                       /\ fallback_returns("False")
              [] o = "import_error" -> /\ pc' = "placeholder"
                                       /\ UNCHANGED << out_file, fb_ret, ret >>
    /\ UNCHANGED temp_png
    /\ svgUnchanged

\* lines 605-618 and 620-622: the placeholder image
svg_placeholder ==
    /\ pc = "placeholder"
    /\ \E o \in { "ok", "raise_in_write" } :
         /\ attempts' = Append(attempts,
                          Attempt("placeholder", IF o = "ok" THEN "ok" ELSE "raised"))
         /\ fallback_writes(Entry(IF o = "ok" THEN "complete" ELSE "partial", "placeholder"))
         /\ fallback_returns(IF o = "ok" THEN "True" ELSE "False")
    /\ UNCHANGED temp_png
    /\ svgUnchanged

\* lines 628-639 and 648-650
svg_to_pdf ==
    /\ pc = "_svg_to_pdf"
    /\ \E o \in { "import_error", "raise_before_write", "raise_in_write", "ok" } :
         /\ attempts' = Append(attempts,
                          Attempt("cairosvg", CASE o = "ok"           -> "ok"
                                                [] o = "import_error" -> "missing"
                                                [] OTHER              -> "raised"))
         /\ out_file' = CASE o = "ok"             -> Entry("complete", "cairosvg")
                          [] o = "raise_in_write" -> Entry("partial", "cairosvg")
                          [] OTHER                -> out_file
         /\ temp_png' = IF o = "import_error" THEN "exists" ELSE temp_png
         /\ CASE o = "ok"           -> returns("True")
              [] o = "import_error" -> /\ pc' = "_svg_to_raster_fallback"
                                       /\ ret' = ret
              [] OTHER              -> returns("False")
    /\ UNCHANGED fb_ret
    /\ svgUnchanged

\* lines 640-646: what _svg_to_pdf returns after the intermediate render
NoReturn_svg_to_pdf_png_result(rendered, success) ==
    IF rendered THEN success ELSE None

svg_to_pdf_png_result(rendered, success) ==
    IF rendered THEN success ELSE "False"

\* lines 640-650: _image_to_pdf on the intermediate PNG, then os.unlink
svg_to_pdf_png ==
    /\ pc = "_svg_to_pdf_png"
    /\ \E o \in { "ok", "raise_before_write", "raise_in_write" }, u \in { "ok", "raise" } :
         LET rendered == fb_ret = "True"
             success  == IF o = "ok" THEN "True" ELSE "False"
         IN  /\ rendered \/ o = "ok"
             /\ attempts' = IF rendered
                            THEN Append(attempts, Attempt("_image_to_pdf",
                                                    IF o = "ok" THEN "ok" ELSE "raised"))
                            ELSE attempts
             /\ out_file' = CASE rendered /\ o = "ok" -> Entry("complete", "_image_to_pdf")
                              [] rendered /\ o = "raise_in_write"
                                                      -> Entry("partial", "_image_to_pdf")
                              [] OTHER                -> out_file
             /\ temp_png' = IF u = "ok" THEN "deleted" ELSE "exists"
             \* a raising os.unlink lands in the handler of lines 648-650
             /\ returns(IF u = "ok" THEN svg_to_pdf_png_result(rendered, success)
                                    ELSE "False")
    /\ UNCHANGED fb_ret
    /\ svgUnchanged

(***************************************************************************)
(* The files of the batch runs                                             *)
(*                                                                         *)
(* A file system entry is <<path, kind, size in MB>>, as os.path and       *)
(* os.path.getsize see it when a conversion looks at it. Directory 0 is    *)
(* input_dir, 2 is a subdirectory of it, 3 is a bulk input_dir, 1 is the   *)
(* output directory.                                                       *)
(***************************************************************************)
FileSystem ==
    << << Path(0, 1, Suffix(".png")), "file", 1 >>,
       << Path(0, 2, Suffix(".xyz")), "file", 1 >>,
       << Path(0, 3, Suffix(".docx")), "file", 1 >>,
       << Path(0, 4, Suffix(".png")), "file", MAX_FILE_SIZE + 1 >>,
       << Path(2, 1, << ".png", {2, 3, 4} >>), "file", 1 >>,
       \* listed, or dropped on the window, and deleted before its turn
       << Path(0, 5, Suffix(".jpg")), "missing", 0 >> >>

\* os.stat: the files of the bulk directory are regular files of 1 MB
stat(file_path) ==
    IF \E n \in DOMAIN FileSystem : FileSystem[n][1] = file_path
    THEN FileSystem[CHOOSE n \in DOMAIN FileSystem : FileSystem[n][1] = file_path]
    ELSE << file_path, "file", 1 >>

exists(file_path) ==
    stat(file_path)[2] # "missing"

isfile(file_path) ==
    stat(file_path)[2] = "file"

getsize(file_path) ==
    stat(file_path)[3]

\* utils.py, lines 60-66: os.makedirs(output_dir, exist_ok=True) on the directories
\* that exist
create_output_directory(directory) ==
    dirs \cup { directory }

\* utils.py, lines 43-58
validate_file(file_path) ==
    CASE ~exists(file_path)                     -> << FALSE, "File does not exist" >>
      [] ~isfile(file_path)                     -> << FALSE, "Path is not a file" >>
      [] getsize(file_path) > MAX_FILE_SIZE     -> << FALSE, "File size exceeds limit" >>
      [] ~is_supported_format(file_path)        -> << FALSE, "File format not supported" >>
      [] OTHER                                  -> << TRUE, "File is valid" >>

\* utils.py, lines 86-88
get_convertible_formats(source) ==
    IF source \in Keys(CONVERSION_MATRIX) THEN Get(CONVERSION_MATRIX, source) ELSE << >>

\* the entries of a sequence at the positions S, in the order of the sequence
Pick(s, S) ==
    [ k \in 1..Cardinality(S) |->
        s[CHOOSE n \in S : Cardinality({ m \in S : m < n }) = k - 1] ]

\* what os.walk yields for a small tree: some of the files, in traversal order
SmallListings ==
    { Pick([ n \in DOMAIN FileSystem |-> FileSystem[n][1] ], S) :
        S \in { T \in SUBSET DOMAIN FileSystem : Cardinality(T) <= MaxListing } }

\* and for a bulk directory: convertible images between two other files
BulkListings ==
    { << Path(3, 0, Suffix(".xyz")) >>
        \o [ n \in 1..k |-> Path(3, n, Suffix(".png")) ]
        \o << Path(3, k + 1, Suffix(".docx")) >> :
        k \in (MAX_BATCH_SIZE - 1)..(MAX_BATCH_SIZE + BulkOver) }

\* the target formats of the batches: an image, a document, and a target the
\* matrix offers for docx that has no handler
BatchTargets ==
    { "jpg", "pdf", "rtf" }

\* a line typed at the prompt: its lower-case spelling and the positions
\* typed in upper case
Answers ==
    { << "y", {} >>, << "y", {1} >>, << "n", {} >>, << "", {} >>, << "yes", {} >> }

\* what converter.convert can hand back to the loop (converter_core.py, lines
\* 93-106): False without a handler, else the handler's verdict
convert_results(source, target) ==
    IF HandlerFor(supported_conversions, << source, target >>) = None
    THEN { "False" }
    ELSE { "True", "False" }

(***************************************************************************)
(* cli_converter.py: batch_convert, lines 100-157                          *)
(***************************************************************************)
\* lines 117-119, with every file kept whose format is known
retain_known(file_path, target) ==
    is_supported_format(file_path)

\* lines 117-119
retain(file_path, target) ==
    /\ is_supported_format(file_path)
    /\ can_convert(get_file_format(file_path), target)

\* lines 113-120
find_supported_files(files, target) ==
    SelectSeq(files, LAMBDA file_path : retain(file_path, target))

\* line 134, with the whole list kept
all_files(files) ==
    files

\* line 134: supported_files[:config.MAX_BATCH_SIZE]
first_files(files) ==
    SubSeq(files, 1, Min({ Len(files), MAX_BATCH_SIZE }))

batch_returns(result) ==
    /\ b_ret' = result
    /\ b_pc' = "done"
    /\ UNCHANGED << supported_conversions, pc, position, successful, failed >>

\* lines 137-139: the converter and the counters
batch_loop_begins ==
    /\ supported_conversions' = DocumentConverter
    /\ pc' = "idle"
    /\ position' = 0
    /\ successful' = 0
    /\ failed' = 0
    /\ b_pc' = "for"
    /\ b_ret' = b_ret

\* lines 105-139
batch_convert ==
    /\ front = "cli"
    /\ b_pc = "batch_convert"
    /\ IF ~input_dir_exists
       THEN /\ batch_returns("False")
            /\ UNCHANGED << supported_files, response, warned, dirs >>
       ELSE LET found == find_supported_files(walk, batch_target)
            IN  \* line 110
                /\ dirs' = create_output_directory(output_dir)
                /\ CASE found = << >> ->
                          /\ supported_files' = found
                          /\ batch_returns("False")
                          /\ UNCHANGED << response, warned >>
                     [] Len(found) > MAX_BATCH_SIZE ->
                          /\ warned' = TRUE
                          /\ \/ \* input() finds stdin closed: EOFError leaves batch_convert
                                /\ supported_files' = found
                                /\ response' = response
                                /\ batch_returns("EOFError")
                             \/ \E answer \in Answers :
                                  /\ response' = answer
                                  /\ IF lower(answer) # << "y", {} >>
                                     THEN /\ supported_files' = found
                                          /\ batch_returns("False")
                                     ELSE /\ supported_files' = first_files(found)
                                          /\ batch_loop_begins
                     [] OTHER ->
                          /\ supported_files' = found
                          /\ batch_loop_begins
                          /\ UNCHANGED << response, warned >>
    /\ UNCHANGED << envVars, frameVars, front, input_dir_exists, walk, batch_target,
                    guiVars, processed, attempted, reported, argVars, threadVars, imageVars, output_dir,
                    output_files >>

\* lines 141-154: one pass of the loop
batch_convert_file ==
    /\ front = "cli"
    /\ b_pc = "for"
    /\ position < Len(supported_files)
    /\ LET file == supported_files[position + 1]
       IN  \E success \in convert_results(get_file_format(file), batch_target) :
             /\ processed' = Append(processed, file)
             /\ attempted' = Append(attempted, file)
             /\ output_files' = Append(output_files,
                                  generate_output_filename(file, batch_target, output_dir))
             /\ successful' = IF success = "True" THEN successful + 1 ELSE successful
             /\ failed' = IF success = "True" THEN failed ELSE failed + 1
    /\ position' = position + 1
    /\ UNCHANGED << convVars, front, b_pc, batch_target, cliVars, guiVars, reported,
                    argVars, threadVars, imageVars, output_dir, dirs >>

\* lines 156-157, with the summary left out when no file was converted
batch_convert_ends_quietly ==
    /\ front = "cli"
    /\ b_pc = "for"
    /\ position = Len(supported_files)
    /\ reported' = (successful > 0)
    /\ b_ret' = IF failed = 0 THEN "True" ELSE "False"
    /\ b_pc' = "done"
    /\ UNCHANGED << convVars, front, batch_target, input_dir_exists, walk, supported_files,
                    response, warned, guiVars, position, successful, failed, processed,
                    attempted, argVars, threadVars, imageVars, outVars >>

\* lines 156-157
batch_convert_ends ==
    /\ front = "cli"
    /\ b_pc = "for"
    /\ position = Len(supported_files)
    /\ reported' = TRUE
    /\ b_ret' = IF failed = 0 THEN "True" ELSE "False"
    /\ b_pc' = "done"
    /\ UNCHANGED << convVars, front, batch_target, input_dir_exists, walk, supported_files,
                    response, warned, guiVars, position, successful, failed, processed,
                    attempted, argVars, threadVars, imageVars, outVars >>

(***************************************************************************)
(* cli_converter.py: convert_file, lines 47-98                             *)
(***************************************************************************)
\* the working directory: the dirname of an output path that names no directory
cwd ==
    5

\* the directories -o may name, besides the working directory
OutputDirs ==
    { DEFAULT_OUTPUT_DIR, 4 }

\* args.output of a single file: none, a file in a directory of its own, a
\* file of the working directory
ArgOutputs ==
    { NoPath, Path(4, 1, Suffix(".out")), Path(cwd, 1, Suffix(".out")) }

\* args.input of a single file: a file of the tree, or a regular file named
\* by an alias of its format, in either case, or without an extension
ArgInputs ==
    { FileSystem[n][1] : n \in DOMAIN FileSystem }
      \cup { Path(0, 6, << ".jpeg", {2, 5} >>), Path(0, 7, Suffix(".htm")),
              Path(0, 8, << ".tif", {2, 3, 4} >>), Path(0, 9, Suffix("")) }

\* lines 47-98
convert_file ==
    /\ front = "file"
    /\ b_pc = "convert_file"
    /\ LET source == get_file_format(arg_input)
       IN  IF \/ ~exists(arg_input)
              \/ ~validate_file(arg_input)[1]
              \/ source = None
              \/ ~can_convert(source, batch_target)
           THEN /\ b_ret' = "False"
                /\ UNCHANGED << supported_conversions, pc, processed, attempted, outVars >>
           ELSE \* lines 75-82
                /\ IF arg_output = NoPath
                   THEN /\ output_dir' = DEFAULT_OUTPUT_DIR
                        /\ dirs' = create_output_directory(DEFAULT_OUTPUT_DIR)
                        /\ output_files' = << generate_output_filename(arg_input, batch_target,
                                                                      DEFAULT_OUTPUT_DIR) >>
                   ELSE \* os.path.dirname(output_file)
                        /\ output_dir' = arg_output[1]
                        /\ dirs' = IF arg_output[1] # cwd
                                   THEN create_output_directory(arg_output[1])
                                   ELSE dirs
                        /\ output_files' = << arg_output >>
                \* lines 89-98
                /\ supported_conversions' = DocumentConverter
                /\ pc' = "idle"
                /\ processed' = << arg_input >>
                /\ attempted' = << arg_input >>
                /\ \E success \in IF HandlerFor(DocumentConverter, << source, batch_target >>) = None
                                  THEN { "False" }
                                  ELSE { "True", "False" } :
                     b_ret' = success
    /\ b_pc' = "done"
    /\ UNCHANGED << envVars, frameVars, front, batch_target, input_dir_exists, walk,
                    supported_files, response, warned, guiVars, position, successful,
                    failed, reported, argVars, threadVars, imageVars >>

(***************************************************************************)
(* file_converter_gui.py: the file list and the batch worker               *)
(*                                                                         *)
(* The worker thread iterates the list object the main thread edits; each  *)
(* action below is one step of one of the two threads. The window is      *)
(* followed from its construction to the end of its first batch.           *)
(***************************************************************************)
\* update_file_info, lines 581-594, writes input_file_var, whose trace is
\* on_input_file_change, lines 606-637: the state it gives convert_button
on_input_file_change(files) ==
    IF files = << >>
    THEN "disabled"
    ELSE LET first == files[1]
             source == get_file_format(first)
         IN  IF exists(first) /\ source # None /\ get_convertible_formats(source) # << >>
             THEN "normal"
             ELSE "disabled"

\* the main thread may edit the list: any time before the batch, MaxEdits
\* times while it runs
CanEdit ==
    /\ front = "gui"
    /\ b_pc \in { "mainloop", "worker", "after" }
    /\ (b_pc # "mainloop" \/ workers # << >>) => edits < MaxEdits

list_edited(files) ==
    /\ input_files_list' = files
    /\ convert_button' = on_input_file_change(files)
    /\ edits' = IF b_pc = "mainloop" /\ workers = << >> THEN edits ELSE edits + 1
    /\ UNCHANGED << convVars, front, b_pc, batch_target, cliVars, file_count,
                    started_with, loopVars, argVars, threadVars, imageVars, outVars >>

\* on_drop, lines 117-151, and browse_input_file, lines 518-526: one new file
add_file ==
    /\ CanEdit
    /\ Len(input_files_list) < MaxListing
    /\ \E n \in DOMAIN FileSystem :
         /\ FileSystem[n][1] \notin Range(input_files_list)
         /\ list_edited(Append(input_files_list, FileSystem[n][1]))

\* lines 557-568: del self.input_files_list[index]
remove_selected_file ==
    /\ CanEdit
    /\ \E index \in DOMAIN input_files_list :
         list_edited(SubSeq(input_files_list, 1, index - 1)
                       \o SubSeq(input_files_list, index + 1, Len(input_files_list)))

\* lines 570-579: self.input_files_list.clear()
clear_all_files ==
    /\ CanEdit
    /\ input_files_list # << >>
    /\ list_edited(<< >>)

\* convert_file, lines 639-660, through the Convert button, and
\* start_batch_conversion, lines 662-677 and 726-728
start_batch_conversion ==
    /\ front = "gui"
    /\ b_pc = "mainloop"
    /\ convert_button = "normal"
    /\ input_files_list # << >>
    /\ \E target \in BatchTargets : batch_target' = target
    /\ convert_button' = "disabled"
    /\ file_count' = Len(input_files_list)
    /\ started_with' = input_files_list
    /\ edits' = 0
    /\ position' = 0
    /\ successful' = 0
    /\ failed' = 0
    /\ processed' = << >>
    /\ attempted' = << >>
    /\ reported' = FALSE
    \* lines 652-657
    /\ dirs' = create_output_directory(output_dir)
    /\ output_files' = << >>
    /\ b_pc' = "worker"
    /\ UNCHANGED << convVars, front, cliVars, input_files_list, argVars, threadVars, imageVars, output_dir >>

\* lines 679-717: one pass of the worker's loop over the shared list
batch_conversion_worker ==
    /\ front = "gui"
    /\ b_pc = "worker"
    /\ position < Len(input_files_list)
    /\ LET file == input_files_list[position + 1]
           is_valid == validate_file(file)[1]
       IN  /\ processed' = Append(processed, file)
           /\ IF ~is_valid
              THEN \* line 689 raises; lines 711-713
                   /\ failed' = failed + 1
                   /\ UNCHANGED << successful, attempted, output_files >>
              ELSE \E success \in convert_results(get_file_format(file), batch_target) :
                     /\ attempted' = Append(attempted, file)
                     /\ output_files' = Append(output_files,
                                          generate_output_filename(file, batch_target,
                                                                   output_dir))
                     /\ successful' = IF success = "True" THEN successful + 1 ELSE successful
                     /\ failed' = IF success = "True" THEN failed ELSE failed + 1
    /\ position' = position + 1
    /\ UNCHANGED << convVars, front, b_pc, batch_target, cliVars, guiVars, reported,
                    argVars, threadVars, imageVars, output_dir, dirs >>

\* line 679 finds the list exhausted; line 720 queues the completion
batch_conversion_worker_ends ==
    /\ front = "gui"
    /\ b_pc = "worker"
    /\ position >= Len(input_files_list)
    /\ b_pc' = "after"
    /\ UNCHANGED << convVars, front, batch_target, cliVars, guiVars, loopVars, argVars, threadVars, imageVars,
                    outVars >>

\* lines 730-759, on the main thread
batch_conversion_complete ==
    /\ front = "gui"
    /\ b_pc = "after"
    /\ convert_button' = "normal"
    /\ reported' = TRUE
    /\ b_pc' = "complete"
    /\ UNCHANGED << convVars, front, batch_target, cliVars, input_files_list, file_count,
                    started_with, edits, position, successful, failed, processed,
                    attempted, argVars, threadVars, imageVars, outVars >>

(***************************************************************************)
(* converter_core.py: _image_convert and _image_to_pdf, lines 416-538      *)
(*                                                                         *)
(* An image is <<mode, <<width, height>>>>. The handlers are followed from *)
(* Image.open to the call of img.save: the operations applied to the image *)
(* and what the encoder is given.                                          *)
(***************************************************************************)
Image(mode, size) ==
    << mode, size >>

Modes ==
    { "RGBA", "LA", "P", "RGB", "L", "CMYK" }

\* line 480
ico_sizes ==
    << 16, 32, 48, 64, 128, 256 >>

\* line 522
max_width ==
    595

max_height ==
    842

\* the sides of the opened images: 1, each limit of the handlers and its
\* neighbours, and multiples of the page
Sides ==
    { 1 }
      \cup { s + d : s \in Range(ico_sizes) \cup { max_width, max_height }, d \in { -1, 0, 1 } }
      \cup { k * max_width : k \in 2..MaxScale }
      \cup { k * max_height : k \in 2..MaxScale }

\* os.path.splitext(output_file)[1].lower(), line 421
TargetExts ==
    { ".jpg", ".jpeg", ".png", ".gif", ".bmp", ".tiff", ".tif", ".webp", ".ico", ".out" }

NoImage ==
    /\ image_pc = None
    /\ image_handler = None
    /\ image_ext = None
    /\ src_img = Image(None, << 0, 0 >>)
    /\ img = Image(None, << 0, 0 >>)
    /\ image_ops = << >>
    /\ encoder = << None, << >> >>
    /\ image_ret = None

\* lines 426-435: the operations of the JPEG branch and the image they leave
to_jpeg(im) ==
    IF im[1] \in { "RGBA", "LA", "P" }
    THEN LET rgba == IF im[1] = "P" THEN Image("RGBA", im[2]) ELSE im
         IN  << (IF im[1] = "P" THEN << "convert RGBA" >> ELSE << >>)
                  \o << "new RGB white",
                        IF rgba[1] = "RGBA" THEN "paste mask=alpha" ELSE "paste mask=None" >>,
                Image("RGB", im[2]) >>
    ELSE << << "convert RGB" >>, Image("RGB", im[2]) >>

\* lines 441-442
to_png(im) ==
    IF im[1] \notin { "RGBA", "RGB", "L", "LA" }
    THEN << << "convert RGBA" >>, Image("RGBA", im[2]) >>
    ELSE << << >>, im >>

\* lines 447-449
to_gif(im) ==
    IF im[1] # "P"
    THEN << << "convert P" >>, Image("P", im[2]) >>
    ELSE << << >>, im >>

\* lines 454-459
to_bmp(im) ==
    IF im[1] \in { "RGBA", "LA" }
    THEN << << "new RGB white",
               IF im[1] = "RGBA" THEN "paste mask=alpha" ELSE "paste mask=None" >>,
            Image("RGB", im[2]) >>
    ELSE << << "convert RGB" >>, Image("RGB", im[2]) >>

\* lines 472-477: the image the icons are cut from
ico_base(im) ==
    LET resized == IF im[2][1] > 256 \/ im[2][2] > 256
                   THEN << << "resize" >>, Image(im[1], << 256, 256 >>) >>
                   ELSE << << >>, im >>
    IN  IF resized[2][1] # "RGBA"
        THEN << resized[1] \o << "convert RGBA" >>, Image("RGBA", resized[2][2]) >>
        ELSE resized

\* lines 480-485: the sizes of the icons
icons(im) ==
    LET fits == SelectSeq(ico_sizes, LAMBDA s : s <= im[2][1] /\ s <= im[2][2])
    IN  [ k \in DOMAIN fits |-> << fits[k], fits[k] >> ]

\* lines 424-494: << operations, image saved, format, sizes= >>; the format
\* is None when img.save finds no encoder for the extension
image_convert_result(im, ext) ==
    CASE ext \in { ".jpg", ".jpeg" } -> to_jpeg(im) \o << "JPEG", << >> >>
      [] ext = ".png"                -> to_png(im) \o << "PNG", << >> >>
      [] ext = ".gif"                -> to_gif(im) \o << "GIF", << >> >>
      [] ext = ".bmp"                -> to_bmp(im) \o << "BMP", << >> >>
      [] ext \in { ".tiff", ".tif" } -> << << >>, im, "TIFF", << >> >>
      [] ext = ".webp"               -> << << >>, im, "WEBP", << >> >>
      [] ext = ".ico"                ->
           LET base == ico_base(im)
               list == icons(base[2])
           IN  IF list # << >>
               THEN << base[1] \o [ k \in DOMAIN list |-> "resize" ],
                       Image("RGBA", list[1]), "ICO", list >>
               ELSE << base[1], base[2], "ICO", << >> >>
      [] OTHER                       -> << << >>, im, None, << >> >>

\* lines 416-501
image_convert ==
    /\ image_pc = "open"
    /\ image_handler = "_image_convert"
    /\ LET r == image_convert_result(src_img, image_ext)
       IN  /\ image_ops' = r[1]
           /\ img' = r[2]
           /\ IF r[3] = None
              THEN \* the exception of img.save, lines 499-501
                   /\ encoder' = encoder
                   /\ image_ret' = "False"
              ELSE /\ encoder' = << r[3], r[4] >>
                   /\ image_ret' = "True"
    /\ image_pc' = "returned"
    /\ UNCHANGED << convVars, front, b_pc, batch_target, cliVars, guiVars, loopVars,
                    argVars, threadVars, outVars, image_handler, image_ext, src_img >>

\* lines 507-518: the image on a white background, or in RGB
to_rgb(im) ==
    IF im[1] \in { "RGBA", "LA", "P" }
    THEN LET rgba == IF im[1] = "P" THEN Image("RGBA", im[2]) ELSE im
         IN  << (IF im[1] = "P" THEN << "convert RGBA" >> ELSE << >>)
                  \o << "new RGB white",
                        IF rgba[1] \in { "RGBA", "LA" } THEN "paste mask=alpha"
                                                        ELSE "paste mask=None" >>,
                Image("RGB", im[2]) >>
    ELSE IF im[1] # "RGB"
         THEN << << "convert RGB" >>, Image("RGB", im[2]) >>
         ELSE << << >>, im >>

\* int(side * ratio), line 528, for ratio = limit / other in floating point:
\* the quotient truncated, or one less when the quotient is an integer and
\* the rounded product falls short of it
truncated(side, limit, other) ==
    { (side * limit) \div other }
      \cup IF (side * limit) % other = 0 THEN { ((side * limit) \div other) - 1 } ELSE {}

\* lines 527-528: ratio is max_width / img_width when that is the smaller
new_sizes(size) ==
    IF max_width * size[2] <= max_height * size[1]
    THEN { << w, h >> : w \in truncated(size[1], max_width, size[1]),
                        h \in truncated(size[2], max_width, size[1]) }
    ELSE { << w, h >> : w \in truncated(size[1], max_height, size[2]),
                        h \in truncated(size[2], max_height, size[2]) }

\* lines 503-538
image_to_pdf ==
    /\ image_pc = "open"
    /\ image_handler = "_image_to_pdf"
    /\ LET rgb == to_rgb(src_img)
           size == rgb[2][2]
       IN  IF size[1] > max_width \/ size[2] > max_height
           THEN \E new_size \in new_sizes(size) :
                  IF new_size[1] < 1 \/ new_size[2] < 1
                  THEN \* img.resize raises ValueError, lines 536-538
                       /\ image_ops' = rgb[1]
                       /\ img' = rgb[2]
                       /\ encoder' = encoder
                       /\ image_ret' = "False"
                  ELSE /\ image_ops' = rgb[1] \o << "resize" >>
                       /\ img' = Image("RGB", new_size)
                       /\ encoder' = << "PDF", << >> >>
                       /\ image_ret' = "True"
           ELSE /\ image_ops' = rgb[1]
                /\ img' = rgb[2]
                /\ encoder' = << "PDF", << >> >>
                /\ image_ret' = "True"
    /\ image_pc' = "returned"
    /\ UNCHANGED << convVars, front, b_pc, batch_target, cliVars, guiVars, loopVars,
                    argVars, threadVars, outVars, image_handler, image_ext, src_img >>

(***************************************************************************)
(* The batch at rest                                                       *)
(***************************************************************************)
\* nothing collected, nothing converted
BatchAtRest ==
    /\ supported_files = << >>
    /\ response = << "", {} >>
    /\ warned = FALSE
    /\ b_ret = None
    /\ input_files_list = << >>
    /\ convert_button = "normal"
    /\ file_count = 0
    /\ started_with = << >>
    /\ edits = 0
    /\ position = 0
    /\ successful = 0
    /\ failed = 0
    /\ processed = << >>
    /\ attempted = << >>
    /\ reported = FALSE
    /\ output_files = << >>

\* no single file was named on the command line
NoArgs ==
    /\ arg_input = NoPath
    /\ arg_output = NoPath

\* no thread of the window was started
NoThreads ==
    /\ workers = << >>
    /\ callbacks = << >>
    /\ progress_bar = "stopped"

\* no front end runs a batch
NoBatch ==
    /\ front = None
    /\ b_pc = None
    /\ input_dir_exists = FALSE
    /\ walk = << >>
    /\ batch_target = None
    /\ BatchAtRest
    /\ NoArgs
    /\ NoThreads
    /\ output_dir = DEFAULT_OUTPUT_DIR
    /\ dirs = {}

(***************************************************************************)
(* Specification of the converter                                          *)
(***************************************************************************)
vars ==
    << convVars, batchVars >>

Init ==
    /\ InitEnv
    /\ supported_conversions = << >>
    /\ pc = "new"
    /\ Idle
    /\ NoBatch
    /\ NoImage

Next ==
    \/ new_DocumentConverter
    \/ convert_call
    \/ convert_return
    \/ simple_handler
    \/ docx_to_pdf_windows
    \/ docx_to_pdf_linux
    \/ docx_to_pdf_other
    \/ docx_to_pdf_fallback
    \/ video_moviepy
    \/ video_ffmpeg
    \/ video_no_tools
    \/ svg_to_raster
    \/ svg_to_raster_fallback
    \/ svg_placeholder
    \/ svg_to_pdf
    \/ svg_to_pdf_png

Spec ==
    Init /\ [][Next]_vars

(***************************************************************************)
(* Specification of the batch runs                                         *)
(***************************************************************************)
\* cli_converter.main calls batch_convert on a directory; or the window of
\* the GUI is up, its converter built and its list empty
InitBatch ==
    \* the batch loops read neither flag
    /\ MOVIEPY_AVAILABLE = FALSE
    /\ FFMPEG_SYSTEM_AVAILABLE = TRUE
    /\ Idle
    /\ BatchAtRest
    /\ NoArgs
    /\ NoThreads
    /\ NoImage
    \* no -o on the command line, the default of the window's output field
    \* (cli_converter.py, line 215; file_converter_gui.py, line 201); the
    \* directory is not there yet
    /\ output_dir = DEFAULT_OUTPUT_DIR
    /\ dirs = {}
    /\ \/ /\ front = "cli"
          /\ b_pc = "batch_convert"
          /\ pc = "new"
          /\ supported_conversions = << >>
          /\ batch_target \in BatchTargets
          /\ \/ /\ input_dir_exists = TRUE
                /\ walk \in SmallListings \cup BulkListings
             \/ /\ input_dir_exists = FALSE
                /\ walk = << >>
       \/ /\ front = "gui"
          /\ b_pc = "mainloop"
          /\ pc = "idle"
          /\ supported_conversions = DocumentConverter
          /\ batch_target = None
          /\ input_dir_exists = FALSE
          /\ walk = << >>

NextBatch ==
    \/ batch_convert
    \/ batch_convert_file
    \/ batch_convert_ends
    \/ add_file
    \/ remove_selected_file
    \/ clear_all_files
    \/ start_batch_conversion
    \/ batch_conversion_worker
    \/ batch_conversion_worker_ends
    \/ batch_conversion_complete

SpecBatch ==
    InitBatch /\ [][NextBatch]_vars

TypeOK ==
    /\ pc \in { "new", "idle", "returned", "placeholder", "_svg_to_pdf_png",
                "_docx_to_pdf_fallback", "_svg_to_raster_fallback" }
                \cup { DocumentConverter[i][2] : i \in DOMAIN DocumentConverter }
    /\ ret \in { None, "True", "False" }
    /\ temp_png \in { "none", "exists", "deleted" }


(***************************************************************************)
(* Properties of the registry and of convert()                             *)
(***************************************************************************)
Registered(source, target) ==
    <<source, target>> \in Keys(supported_conversions)

InCall ==
    pc \notin { "new", "idle" }

Failed(strategy) ==
    \E i \in DOMAIN attempts : attempts[i][1] = strategy /\ attempts[i][2] # "ok"

Succeeded(strategy) ==
    \E i \in DOMAIN attempts : attempts[i][1] = strategy /\ attempts[i][2] = "ok"

\* C1: every pair can_convert accepts is a key of supported_conversions, so
\* convert() on such a pair reaches a handler instead of the "not supported"
\* branch.
C1_ConvertibleIsRegistered ==
    /\ pc # "new" =>
         \A s \in Formats, t \in Formats : can_convert(s, t) => Registered(s, t)
    /\ (pc = "returned" /\ can_convert(source_format, target_format)) => handler_calls = 1

\* C2: every pair registered by the constructor is accepted by can_convert
\* and is bound to a handler.
C2_RegisteredIsConvertible ==
    pc # "new" =>
      \A k \in Keys(supported_conversions) :
        /\ can_convert(k[1], k[2])
        /\ HandlerFor(supported_conversions, k) # None

\* C3: convert() on a pair that is not registered returns False at once: no
\* handler was invoked, no strategy ran, no process was started and
\* output_file is as it was.
C3_UnsupportedReturnsFalseAtOnce ==
    (InCall /\ ~Registered(source_format, target_format)) =>
      /\ pc = "returned"
      /\ ret = "False"
      /\ handler_calls = 0
      /\ attempts = << >>
      /\ procs = 0
      /\ out_file = out_before

C3_Witness ==
    /\ pc = "returned"
    /\ ~Registered(source_format, target_format)
    /\ can_convert(source_format, target_format)
    /\ ret = "False"
    /\ out_file[1] = "absent"

\* C4: convert() on a registered pair always hands a boolean to its caller,
\* and False whenever the last strategy it ran did not succeed; nothing is
\* handed over before the handler has ended.
C4_ConvertReturnsBoolean ==
    /\ pc = "returned" =>
         /\ ret \in { "True", "False" }
         /\ (attempts # << >> /\ attempts[Len(attempts)][2] # "ok") => ret = "False"
    /\ (InCall /\ pc # "returned") => ret = None

C4_Witness ==
    /\ pc = "returned"
    /\ Registered(source_format, target_format)
    /\ Len(attempts) >= 2
    /\ attempts[Len(attempts)][2] = "raised"
    /\ ret = "False"

\* C5: whenever convert() returns True there is a file at output_file.
C5_TrueImpliesOutputExists ==
    (pc = "returned" /\ ret = "True") => out_file[1] # "absent"

\* C6: whenever convert() returns False, output_file does not hold the
\* partial output of a failed attempt.
C6_FalseLeavesNoPartialOutput ==
    (pc = "returned" /\ ret = "False") => out_file[1] # "partial"

\* C7: in _svg_to_raster, whenever cairosvg and Wand have both failed the
\* placeholder was attempted, and if it succeeded convert() returns True with
\* the placeholder at output_file.
C7_PlaceholderAfterTwoFailures ==
    (pc = "returned" /\ chain = "_svg_to_raster" /\ Failed("cairosvg") /\ Failed("wand")) =>
      /\ Failed("placeholder") \/ Succeeded("placeholder")
      /\ Succeeded("placeholder") =>
           (ret = "True" /\ out_file = Entry("complete", "placeholder"))

(***************************************************************************)
(* Properties of the batch runs                                            *)
(***************************************************************************)
\* known format, and an edge from it to the target of the batch
Convertible(file_path) ==
    /\ get_file_format(file_path) # None
    /\ can_convert(get_file_format(file_path), batch_target)

\* the convertible files under input_dir, in traversal order
ConvertibleFiles ==
    SelectSeq(walk, Convertible)

CliDone ==
    front = "cli" /\ b_pc = "done"

\* the prompt was shown and answered with y or Y
Accepted ==
    /\ warned
    /\ b_ret # "EOFError"
    /\ lower(response) = << "y", {} >>

\* the files a batch loop was given: supported_files as the CLI loop
\* iterates it, the file list as it was when the GUI batch started
Retained ==
    IF front = "cli" THEN supported_files ELSE started_with

\* C8: in a batch, CLI or GUI, every retained file is attempted exactly once
\* and in order, whatever the outcome of the files before it, and when the
\* loop has ended successful + failed is the number of retained files.
C8_EveryRetainedFileAttemptedOnce ==
    /\ b_pc \in { "for", "worker" } => processed = SubSeq(Retained, 1, position)
    /\ reported =>
         /\ processed = Retained
         /\ successful + failed = Len(Retained)

InitCli ==
    /\ InitBatch
    /\ front = "cli"

NextCli ==
    \/ batch_convert
    \/ batch_convert_file
    \/ batch_convert_ends

SpecCli ==
    /\ InitCli
    /\ [][NextCli]_vars
    /\ WF_vars(batch_convert)
    /\ WF_vars(batch_convert_file)
    /\ WF_vars(batch_convert_ends)

\* batch_convert got past lines 105-134: the directory exists, a file was
\* retained, and the cap was not exceeded or the prompt was answered with y
LoopEntered ==
    /\ input_dir_exists
    /\ ConvertibleFiles # << >>
    /\ Len(ConvertibleFiles) <= MAX_BATCH_SIZE \/ Accepted

HandlerRan(file_path) ==
    /\ file_path \in Range(attempted)
    /\ HandlerFor(supported_conversions, << get_file_format(file_path), batch_target >>) # None

\* C12: in a batch, CLI or GUI, no handler runs for a file that is missing,
\* is no regular file, exceeds MAX_FILE_SIZE or has an unknown extension:
\* validation rejects it before convert is called.
C12_NoHandlerRunsForInvalidInput ==
    \A k \in DOMAIN attempted :
      HandlerRan(attempted[k]) => validate_file(attempted[k])[1]

(***************************************************************************)
(* Specification of the runs of the command line                           *)
(***************************************************************************)
\* cli_converter.main, lines 211-218, calls batch_convert on a directory or
\* convert_file on a file; the output directory may be there or not
InitOut ==
    /\ MOVIEPY_AVAILABLE = FALSE
    /\ FFMPEG_SYSTEM_AVAILABLE = TRUE
    /\ Idle
    /\ BatchAtRest
    /\ NoThreads
    /\ NoImage
    /\ pc = "new"
    /\ supported_conversions = << >>
    /\ batch_target \in BatchTargets
    /\ dirs \in SUBSET OutputDirs
    /\ \/ /\ front = "cli"
          /\ b_pc = "batch_convert"
          /\ output_dir \in OutputDirs
          /\ NoArgs
          /\ \/ /\ input_dir_exists = TRUE
                /\ walk \in SmallListings
             \/ /\ input_dir_exists = FALSE
                /\ walk = << >>
       \/ /\ front = "file"
          /\ b_pc = "convert_file"
          /\ output_dir = DEFAULT_OUTPUT_DIR
          /\ arg_input \in ArgInputs
          /\ arg_output \in ArgOutputs
          /\ input_dir_exists = FALSE
          /\ walk = << >>

NextOut ==
    \/ batch_convert
    \/ batch_convert_file
    \/ batch_convert_ends
    \/ convert_file

SpecOut ==
    InitOut /\ [][NextOut]_vars

\* the run names its output files itself: a batch, or a single file without -o
DefaultNaming ==
    front = "cli" \/ (front = "file" /\ arg_output = NoPath)

\* C13: the output path the CLI batch and the CLI default hand to convert is
\* the output directory joined with the stem of the input and the first
\* registered extension of the target format, and that directory exists
\* from the first call of convert on.
C13_OutputPathAndDirectory ==
    DefaultNaming =>
      /\ Len(output_files) = Len(attempted)
      /\ \A k \in DOMAIN output_files :
           /\ output_files[k][1] = output_dir
           /\ output_files[k][2] = attempted[k][2]
           /\ output_files[k][3] = << SUPPORTED_FORMATS[CHOOSE i \in DOMAIN SUPPORTED_FORMATS :
                                        SUPPORTED_FORMATS[i][1] = batch_target][2][1], {} >>
           /\ output_dir \in dirs
      /\ (front = "file" /\ output_files # << >>) => output_dir = DEFAULT_OUTPUT_DIR

\* a batch into a directory that was not there has converted the upper-case
\* 2/1.PNG to 4/1.jpg
C13_Witness ==
    /\ front = "cli"
    /\ b_pc = "done"
    /\ output_dir = 4
    /\ Path(2, 1, << ".png", {2, 3, 4} >>) \in Range(attempted)
    /\ Path(4, 1, Suffix(".jpg")) \in Range(output_files)
    /\ successful >= 1

(***************************************************************************)
(* Specification of the image handlers                                     *)
(***************************************************************************)
\* convert() has dispatched to an image handler, which has opened its input
InitImage ==
    /\ MOVIEPY_AVAILABLE = FALSE
    /\ FFMPEG_SYSTEM_AVAILABLE = TRUE
    /\ supported_conversions = DocumentConverter
    /\ pc = "idle"
    /\ Idle
    /\ NoBatch
    /\ image_pc = "open"
    /\ src_img \in { Image(mode, << w, h >>) : mode \in Modes, w \in Sides, h \in Sides }
    /\ \/ /\ image_handler = "_image_convert"
          /\ image_ext \in TargetExts
       \/ /\ image_handler = "_image_to_pdf"
          /\ image_ext = ".pdf"
    /\ img = src_img
    /\ image_ops = << >>
    /\ encoder = << None, << >> >>
    /\ image_ret = None

NextImage ==
    \/ image_convert
    \/ image_to_pdf

SpecImage ==
    InitImage /\ [][NextImage]_vars

\* C14: _image_convert on an RGBA, LA or P image with a .jpg, .jpeg or .bmp
\* target composites the image onto a white background with its alpha
\* channel as the paste mask; none of them reaches the encoder through a
\* plain mode conversion or an unmasked paste.
C14_AlphaCompositedOnWhite ==
    ( /\ image_pc = "returned"
      /\ image_handler = "_image_convert"
      /\ src_img[1] \in { "RGBA", "LA", "P" }
      /\ image_ext \in { ".jpg", ".jpeg", ".bmp" } )
    => /\ "new RGB white" \in Range(image_ops)
       /\ "paste mask=alpha" \in Range(image_ops)
       /\ "paste mask=None" \notin Range(image_ops)
       /\ "convert RGB" \notin Range(image_ops)

\* the candidates of ico_sizes that fit the image as it was opened
FittingSizes ==
    LET fits == SelectSeq(ico_sizes, LAMBDA s : s <= src_img[2][1] /\ s <= src_img[2][2])
    IN  [ k \in DOMAIN fits |-> << fits[k], fits[k] >> ]

\* C15: for a source of w x h converted to ICO, the sizes requested are
\* exactly the candidates s of 16, 32, 48, 64, 128, 256 with s <= w and
\* s <= h, also when one side only exceeds 256; when no candidate fits, a
\* single icon of the source's w x h is encoded.
C15_IcoSizesFitTheSource ==
    ( /\ image_pc = "returned"
      /\ image_handler = "_image_convert"
      /\ image_ext = ".ico" )
    => /\ encoder = << "ICO", FittingSizes >>
       /\ FittingSizes = << >> => img[2] = src_img[2]

\* the page limit of a side, and the side it is scaled with
Scaled(side, limit, other) ==
    \/ img[2][side] = (src_img[2][side] * limit) \div other
    \/ /\ (src_img[2][side] * limit) % other = 0
       /\ img[2][side] = ((src_img[2][side] * limit) \div other) - 1

\* C16: _image_to_pdf embeds an image of w <= 595 and h <= 842 at its
\* original size; any other image is resized to w' x h' with w' <= 595,
\* h' <= 842, w' <= w, h' <= h, where w' and h' are w and h scaled by
\* min(595 / w, 842 / h) and truncated to integers.
C16_PdfImageFitsThePage ==
    ( /\ image_pc = "returned"
      /\ image_handler = "_image_to_pdf" )
    => LET w == src_img[2][1]
           h == src_img[2][2]
       IN  /\ encoder[1] = "PDF"
           /\ IF w <= 595 /\ h <= 842
              THEN /\ img[2] = src_img[2]
                   /\ "resize" \notin Range(image_ops)
              ELSE /\ "resize" \in Range(image_ops)
                   /\ img[2][1] <= 595
                   /\ img[2][2] <= 842
                   /\ img[2][1] <= w
                   /\ img[2][2] <= h
                   /\ IF 595 * h <= 842 * w
                      THEN Scaled(1, 595, w) /\ Scaled(2, 595, w)
                      ELSE Scaled(1, 842, h) /\ Scaled(2, 842, h)

\* C17: no format converts to itself: can_convert(F, F) is false and (F, F)
\* is no key of supported_conversions, in the explicit table and among the
\* generated video and audio pairs.
C17_NoSelfConversion ==
    /\ \A F \in Formats \cup Range(video_formats) \cup Range(audio_formats) :
         /\ ~can_convert(F, F)
         /\ << F, F >> \notin Keys(ExplicitTable)
    /\ pc # "new" =>
         /\ \A k \in Keys(supported_conversions) : k[1] # k[2]
         /\ \A F \in Formats : HandlerFor(supported_conversions, << F, F >>) = None

\* the converter is built: the video and audio families are registered in
\* both directions, and convert() on a self-pair has returned False with no
\* handler called
C17_Witness ==
    /\ pc = "returned"
    /\ source_format = target_format
    /\ ret = "False"
    /\ handler_calls = 0
    /\ Registered("mp4", "avi") /\ Registered("avi", "mp4")
    /\ Registered("mp3", "wav") /\ Registered("wav", "mp3")

\* C20: once the converter is constructed, every ordered pair of distinct
\* video formats is bound to _video_to_video, every (video, audio) pair to
\* _video_to_audio, every (video, gif) pair to _video_to_gif and every
\* ordered pair of distinct audio formats to _audio_to_audio, over the 9
\* video and the 7 audio formats.
C20_VideoAudioEdgesRegistered ==
    /\ Cardinality(Range(video_formats)) = 9
    /\ Cardinality(Range(audio_formats)) = 7
    /\ pc # "new" =>
         \* the entries of the registry, each key bound once
         LET edges == Range(supported_conversions)
         IN  /\ Cardinality(Keys(supported_conversions)) = Len(supported_conversions)
             /\ \A s \in Range(video_formats), t \in Range(video_formats) :
                  s # t => << << s, t >>, "_video_to_video" >> \in edges
             /\ \A s \in Range(video_formats), t \in Range(audio_formats) :
                  << << s, t >>, "_video_to_audio" >> \in edges
             /\ \A s \in Range(video_formats) :
                  << << s, "gif" >>, "_video_to_gif" >> \in edges
             /\ \A s \in Range(audio_formats), t \in Range(audio_formats) :
                  s # t => << << s, t >>, "_audio_to_audio" >> \in edges

\* convert() was dispatched on a generated (video, gif) edge
C20_Witness ==
    /\ pc \notin { "new", "idle" }
    /\ source_format \in Range(video_formats)
    /\ target_format = "gif"
    /\ handler_calls = 1
    /\ Cardinality({ k \in Keys(supported_conversions) :
                       Get(supported_conversions, k) = "_video_to_video" }) = 72

\* the paths the run was given
StatePaths ==
    { arg_input } \cup Range(walk)

\* the formats of the table that list the extension of the path, in lower case
ListedUnder(file_path) ==
    { SUPPORTED_FORMATS[i][1] : i \in
        { j \in DOMAIN SUPPORTED_FORMATS :
            \E e \in Range(SUPPORTED_FORMATS[j][2]) : Suffix(e) = lower(file_path[3]) } }

\* C18: get_file_format is a function of the extension compared without
\* regard to case: a path and its spelling in lower case resolve to the
\* same format, a registered alias resolves to its format, and an extension
\* that is no registered alias resolves to None.
C18_FormatIgnoresCase ==
    /\ \A p \in StatePaths :
         /\ get_file_format(p) = get_file_format(Path(p[1], p[2], lower(p[3])))
         /\ \A f \in ListedUnder(p) : get_file_format(p) = f
         /\ ListedUnder(p) = {} => get_file_format(p) = None
    /\ \A p \in Range(supported_files) \cup Range(attempted) : ListedUnder(p) # {}

\* convert_file has converted 6.JpEG, a jpg by its alias .jpeg, to a pdf
C18_Witness ==
    /\ front = "file"
    /\ b_pc = "done"
    /\ arg_input = Path(0, 6, << ".jpeg", {2, 5} >>)
    /\ batch_target = "pdf"
    /\ attempted = << arg_input >>
    /\ b_ret = "True"

\* C19: every format of SUPPORTED_FORMATS has at least one extension and no
\* extension is listed under two formats, so that at most one entry of the
\* table matches a path and get_file_format returns the same format in any
\* iteration order.
C19_ExtensionsAreUnique ==
    /\ \A i \in DOMAIN SUPPORTED_FORMATS : Len(SUPPORTED_FORMATS[i][2]) >= 1
    /\ \A i \in DOMAIN SUPPORTED_FORMATS, j \in DOMAIN SUPPORTED_FORMATS :
         i # j => /\ SUPPORTED_FORMATS[i][1] # SUPPORTED_FORMATS[j][1]
                  /\ Range(SUPPORTED_FORMATS[i][2]) \cap Range(SUPPORTED_FORMATS[j][2]) = {}
    /\ \A p \in StatePaths :
         /\ Cardinality(ListedUnder(p)) <= 1
         /\ get_file_format(p) # None => ListedUnder(p) = { get_file_format(p) }

\* a batch has retained and converted the .jpg of the tree to pdf, and
\* passed over the .xyz
C19_Witness ==
    /\ front = "cli"
    /\ b_pc = "done"
    /\ batch_target = "pdf"
    /\ Path(0, 2, Suffix(".xyz")) \in Range(walk)
    /\ Path(0, 5, Suffix(".jpg")) \in Range(attempted)
    /\ Path(0, 2, Suffix(".xyz")) \notin Range(attempted)

\* the place of a strategy in its chain
Priority(strategy) ==
    CASE strategy \in { "word_com", "libreoffice", "cairosvg" } -> 1
      [] strategy \in { "text_extraction", "wand" }             -> 2
      [] strategy = "placeholder"                               -> 3
      [] OTHER                                                  -> 0

\* the strategy wrote the whole output
Produced(attempt) ==
    attempt[2] \in { "ok", "unlink_raised" }

\* the strategies tried so far; _image_to_pdf in _svg_to_pdf is the second
\* stage of the PNG route, not a strategy of its own
Tried ==
    SelectSeq(attempts, LAMBDA a : a[1] # "_image_to_pdf")

\* the attempts that write output_file: in _svg_to_pdf the renderers of the
\* PNG route write the intermediate file
WritesOutput(attempt) ==
    chain = "_svg_to_pdf" => attempt[1] \in { "cairosvg", "_image_to_pdf" }

\* C21: within one convert call on _docx_to_pdf, _svg_to_raster or
\* _svg_to_pdf the strategies run in priority order: none starts before the
\* ones above it have failed, none runs twice, none runs after one has
\* succeeded, and False is returned only when every attempt has failed.
C21_StrategiesInPriorityOrder ==
    chain \in { "_docx_to_pdf", "_svg_to_raster", "_svg_to_pdf" } =>
      /\ \A i \in DOMAIN Tried, j \in DOMAIN Tried :
           i < j => /\ Priority(Tried[i][1]) < Priority(Tried[j][1])
                    /\ ~Produced(Tried[i])
      /\ (pc = "returned" /\ ret = "False") =>
           \A k \in DOMAIN attempts : WritesOutput(attempts[k]) => ~Produced(attempts[k])

TimedOut(strategy) ==
    \E i \in DOMAIN attempts : attempts[i] = Attempt(strategy, "timeout")

\* C22: a timeout of an external process is a failure of that attempt: after
\* a LibreOffice timeout the text-extraction fallback is attempted and its
\* result is the result of the call, after an ffmpeg timeout the conversion
\* returns False; convert returns a value in both cases.
C22_TimeoutIsAnOrdinaryFailure ==
    /\ TimedOut("libreoffice") =>
         /\ pc \in { "_docx_to_pdf_fallback", "returned" }
         /\ pc = "returned" =>
              /\ Len(attempts) = 2
              /\ attempts[2][1] = "text_extraction"
              /\ ret = (IF attempts[2][2] = "ok" THEN "True" ELSE "False")
    /\ TimedOut("ffmpeg") =>
         /\ pc = "returned"
         /\ ret = "False"
         /\ Len(attempts) = 1

\* LibreOffice timed out and the text extraction has written the PDF
C22_Witness ==
    /\ pc = "returned"
    /\ attempts = << Attempt("libreoffice", "timeout"), Attempt("text_extraction", "ok") >>
    /\ out_file = Entry("complete", "text_extraction")
    /\ ret = "True"

\* C23: when a call of an SVG handler has returned, no intermediate PNG it
\* created is left on disk, whatever path the call took.
C23_NoTemporaryFileIsLeft ==
    (pc = "returned" /\ chain \in { "_svg_to_raster", "_svg_to_pdf" }) =>
        temp_png # "exists"

(***************************************************************************)
(* file_converter_gui.py: the window and its worker threads                *)
(*                                                                         *)
(* The main thread runs the handlers of the buttons and the callbacks      *)
(* queued with root.after; every start_batch_conversion starts a daemon    *)
(* thread. A thread is << at, index, success >>: where it is, the index of *)
(* its list iterator and the verdict of the convert call it is in. The     *)
(* status and log lines queued per file change nothing followed here, and  *)
(* neither does the target format a thread was started with: any file may  *)
(* be converted or not.                                                    *)
(***************************************************************************)
Worker(at, index, success) ==
    << at, index, success >>

Running(w) ==
    workers[w][1] \in { "loop", "convert" }

guiUnchanged ==
    UNCHANGED << convVars, front, b_pc, batch_target, cliVars, file_count, started_with,
                 edits, loopVars, argVars, imageVars, output_dir, output_files >>

\* convert_file, lines 639-660, and start_batch_conversion, lines 662-677
\* and 726-728: the button is disabled, the bar started, a thread started
gui_convert_file ==
    /\ front = "gui"
    /\ Len(workers) < MaxWorkers
    /\ input_files_list # << >>
    /\ dirs' = create_output_directory(output_dir)
    /\ convert_button' = "disabled"
    /\ progress_bar' = "running"
    /\ workers' = Append(workers, Worker("loop", 0, None))
    /\ UNCHANGED << input_files_list, callbacks >>
    /\ guiUnchanged

\* the Convert button, lines 208-210: Tk runs the command of a button only
\* while its state is normal
Convert_button ==
    /\ convert_button = "normal"
    /\ gui_convert_file

\* quick_docx_to_pdf .. quick_images_to_pdf, lines 830-863: the sidebar
\* buttons, never disabled, call convert_file whenever the list is not empty
quick_conversion ==
    /\ convert_button \in { "normal", "disabled" }
    /\ gui_convert_file

\* lines 679-693: the thread's for loop takes the next entry of the list
\* and validates it; line 700 calls converter.convert
worker_takes_file ==
    /\ front = "gui"
    /\ \E w \in DOMAIN workers :
         LET index == workers[w][2]
         IN  /\ workers[w][1] = "loop"
             /\ index < Len(input_files_list)
             /\ IF ~validate_file(input_files_list[index + 1])[1]
                THEN \* line 689 raises; lines 711-713
                     workers' = [workers EXCEPT ![w] = Worker("loop", index + 1, None)]
                ELSE \E success \in { "True", "False" } :
                       workers' = [workers EXCEPT ![w] =
                                     Worker("convert", index + 1, success)]
    /\ UNCHANGED << input_files_list, convert_button, callbacks, progress_bar, dirs >>
    /\ guiUnchanged

\* lines 700-717: converter.convert returns and the thread counts the file
worker_convert_returns ==
    /\ front = "gui"
    /\ \E w \in DOMAIN workers :
         /\ workers[w][1] = "convert"
         /\ workers' = [workers EXCEPT ![w] = Worker("loop", workers[w][2], None)]
    /\ UNCHANGED << input_files_list, convert_button, callbacks, progress_bar, dirs >>
    /\ guiUnchanged

\* the thread ends without queueing its completion
worker_ends_silently ==
    /\ front = "gui"
    /\ \E w \in DOMAIN workers :
         /\ workers[w][1] = "loop"
         /\ workers[w][2] >= Len(input_files_list)
         /\ workers' = [workers EXCEPT ![w][1] = "queued"]
    /\ UNCHANGED << input_files_list, convert_button, callbacks, progress_bar, dirs >>
    /\ guiUnchanged

\* line 679 finds the list exhausted; line 720 queues batch_conversion_complete
worker_ends ==
    /\ front = "gui"
    /\ \E w \in DOMAIN workers :
         /\ workers[w][1] = "loop"
         /\ workers[w][2] >= Len(input_files_list)
         /\ workers' = [workers EXCEPT ![w][1] = "queued"]
         /\ callbacks' = Append(callbacks, w)
    /\ UNCHANGED << input_files_list, convert_button, progress_bar, dirs >>
    /\ guiUnchanged

\* the main loop runs the oldest queued callback: batch_conversion_complete,
\* lines 730-733
mainloop_callback ==
    /\ front = "gui"
    /\ callbacks # << >>
    /\ progress_bar' = "stopped"
    /\ convert_button' = "normal"
    /\ workers' = [workers EXCEPT ![Head(callbacks)][1] = "complete"]
    /\ callbacks' = Tail(callbacks)
    /\ UNCHANGED << input_files_list, dirs >>
    /\ guiUnchanged

(***************************************************************************)
(* Specification of the window                                             *)
(***************************************************************************)
\* the window is up, its converter built, its list empty
InitGui ==
    /\ MOVIEPY_AVAILABLE = FALSE
    /\ FFMPEG_SYSTEM_AVAILABLE = TRUE
    /\ Idle
    /\ BatchAtRest
    /\ NoArgs
    /\ NoThreads
    /\ NoImage
    /\ output_dir = DEFAULT_OUTPUT_DIR
    /\ dirs = {}
    /\ front = "gui"
    /\ b_pc = "mainloop"
    /\ pc = "idle"
    /\ supported_conversions = DocumentConverter
    /\ batch_target = None
    /\ input_dir_exists = FALSE
    /\ walk = << >>

NextGui ==
    \/ add_file
    \/ remove_selected_file
    \/ clear_all_files
    \/ Convert_button
    \/ quick_conversion
    \/ worker_takes_file
    \/ worker_convert_returns
    \/ worker_ends
    \/ mainloop_callback

SpecGui ==
    InitGui /\ [][NextGui]_vars

\* C24: at most one worker thread of the window runs at any time, and no
\* two of them are inside converter.convert together.
C24_OneWorkerAtATime ==
    \A v \in DOMAIN workers, w \in DOMAIN workers :
        (Running(v) /\ Running(w)) => v = w

\* C25: the files a GUI batch handles are the entries the list had when the
\* batch started, each once, whatever edits the list sees while the worker
\* iterates; when the worker is through, successful + failed is the file
\* count captured at the start.
C25_BatchHandlesTheListAtStart ==
    front = "gui" =>
      /\ \A k \in DOMAIN processed : processed[k] \in Range(started_with)
      /\ \A j \in DOMAIN processed, k \in DOMAIN processed :
           processed[j] = processed[k] => j = k
      /\ b_pc \in { "after", "complete" } =>
           /\ processed = started_with
           /\ successful + failed = file_count

\* C26: within one batch no two files are given the same output path, so
\* no conversion of the batch writes over the output of an earlier one.
C26_OutputPathsAreDistinct ==
    b_pc \in { "for", "done", "worker", "after", "complete" } =>
        \A j \in DOMAIN output_files, k \in DOMAIN output_files :
            output_files[j] = output_files[k] => j = k

\* C27: when a call of a video or audio handler returns False with ffmpeg
\* on PATH, the FFmpeg strategy was attempted: it is the fallback of MoviePy
\* where MoviePy is missing and where MoviePy raised.
C27_FfmpegIsTheFallbackOfMoviePy ==
    (pc = "returned" /\ chain \in VideoHandlers /\ FFMPEG_SYSTEM_AVAILABLE /\ ret = "False") =>
        \E k \in DOMAIN attempts : attempts[k][1] = "ffmpeg"

\* the call runs a registered video or audio edge and writes a file of the
\* target format
RegisteredTarget ==
    /\ chain \in { "_video_to_video", "_video_to_audio", "_audio_to_audio" }
    /\ output_format = target_format

\* C28: for the target format of every registered video or audio edge the
\* FFmpeg strategy selects the codecs of MoviePy's parameter tables; no
\* registered audio target is given the MP3 default of another format.
C28_FfmpegSelectsTheCodecsOfMoviePy ==
    (RegisteredTarget /\ \E k \in DOMAIN attempts : attempts[k][1] = "ffmpeg"
                      /\ codecs # NoCodecs) =>
        codecs = moviepy_codecs(chain, target_format)

\* C29: whenever _image_to_pdf scales an image down, both sides of the new
\* size are at least 1: int(w * r) >= 1 and int(h * r) >= 1 for every source
\* of w x h with w > 595 or h > 842 and r = min(595 / w, 842 / h).
C29_ScaledSidesArePositive ==
    ( /\ image_pc = "returned"
      /\ image_handler = "_image_to_pdf"
      /\ (src_img[2][1] > max_width \/ src_img[2][2] > max_height) )
    => \A new_size \in new_sizes(src_img[2]) :
           /\ new_size[1] >= 1
           /\ new_size[2] >= 1

(***************************************************************************)
(* The window with its scheduling                                          *)
(*                                                                         *)
(* A started thread is run by the interpreter until its function returns,  *)
(* converter.convert returns (the external processes it starts are bounded *)
(* by timeouts), and Tk's main loop runs every callback queued with        *)
(* root.after(0, ...). The user's actions are under no obligation.         *)
(***************************************************************************)
SpecGuiFair ==
    /\ SpecGui
    /\ WF_vars(worker_takes_file)
    /\ WF_vars(worker_convert_returns)
    /\ WF_vars(worker_ends)
    /\ WF_vars(mainloop_callback)

Started(w) ==
    w \in DOMAIN workers

Completed(w) ==
    /\ w \in DOMAIN workers
    /\ workers[w][1] = "complete"

\* the completion of a thread is in the queue once while the thread is
\* queued, and not before or after
QueuedOnce ==
    \A w \in DOMAIN workers :
        Len(SelectSeq(callbacks, LAMBDA c : c = w))
          = (IF workers[w][1] = "queued" THEN 1 ELSE 0)

\* C30: for every batch the window starts, the completion callback is
\* queued exactly once and eventually run on the main thread, whatever the
\* outcomes of the files; running it enables the Convert button and stops
\* the progress bar.
C30_EveryBatchCompletes ==
    /\ []QueuedOnce
    /\ \A w \in 1..MaxWorkers : Started(w) ~> Completed(w)
    /\ [][\A w \in DOMAIN workers :
            (workers[w][1] # "complete" /\ workers'[w][1] = "complete") =>
               /\ workers[w][1] = "queued"
               /\ convert_button' = "normal"
               /\ progress_bar' = "stopped"]_vars

\* two batches have run to their completion, one with a file that failed
\* and a list edited meanwhile
C30_Witness ==
    /\ Len(workers) = 2
    /\ Completed(1)
    /\ Completed(2)
    /\ workers[1][2] >= 1
    /\ callbacks = << >>
    /\ edits = 1
    /\ convert_button = "normal"
    /\ progress_bar = "stopped"

====
